---- MODULE Spec2Model ----
(***************************************************************************)
(* Acquisition orchestration and buffer management of the PicoScope 5000   *)
(* front ends: PicoScopeStreamer (src/picoscope_driver.py) and             *)
(* PicoScopeRapidBlock (src/driver.py).                                    *)
(*                                                                         *)
(* Units.  Sample intervals are integers in nanoseconds (_dt_s is the     *)
(* interval in ns, the source holds the same number times 1e-9).  Window   *)
(* durations are integers in microseconds (plot_window_ms times 1000).     *)
(* Sample voltages are integers in microvolts; full-scale ranges and       *)
(* trigger levels are integers in millivolts.  Trigger fractions are       *)
(* integers in 1/1000 of full scale.                                       *)
(***************************************************************************)
EXTENDS Integers, Sequences, FiniteSets, TLC

----------------------------------------------------------------------------
(* Program constants                                                       *)

PS5000A_CHANNEL_A == 0
PS5000A_CHANNEL_B == 1
PS5000A_1V == 6
PS5000A_2V == 7
\* the max count used when the device reported 0
DefaultMaxAdc == 32767
\* the least ring length / sample depth
MinDepth == 10
\* the least window, 0.01 ms, in microseconds
MinWindowUs == 10

----------------------------------------------------------------------------
(* Bounds of the model                                                     *)

\* cfg.driver_buffer_size: the length of the driver's scratch buffers
DriverBufferSize == 12
\* callbacks the driver makes in one behaviour
MaxCallbacks == 2
\* worker threads one session creates in one behaviour
MaxWorkers == 2
\* CloseUnit commands the foreground thread issues in one behaviour
MaxCloseCalls == 2
\* method calls the foreground thread makes in one behaviour
MaxCalls == 3
\* callbacks of the single-threaded ring specification
MaxRingCallbacks == 3
\* the device's samples per segment (ps5000aMemorySegments)
DeviceMaxSamples == 12

\* the inputs the operations are given
SampleIntervals == {1000, 2000}
WindowsUs == {5, 12}
Ranges == {PS5000A_1V, PS5000A_2V}
Channels == {PS5000A_CHANNEL_A, PS5000A_CHANNEL_B}
ThresholdsMv == {0, 500}
\* trigger thresholds of the block session, in thousandths of full scale
ThresholdsPct == {100, 250}

\* the recorder and the reader: the samples of a snapshot on each channel,
\* in units of 2^-10 V (3 is exact in a half, 4095 is a tie that rounds up
\* to the next power of two, 2049 a tie that rounds down), the longest
\* snapshot, the files one recording session writes, and the longest file
\* the recorder did not write
SamplesA == {3, 4095}
SamplesB == {0, 0 - 2049}
MaxSnapshot == 2
MaxRecordings == 2
MaxFileBytes == 9
DTypes == {"float16", "float32"}

----------------------------------------------------------------------------
(* Arithmetic helpers                                                      *)

Min(a, b) == IF a <= b THEN a ELSE b
Max(a, b) == IF a >= b THEN a ELSE b

\* Python's round(num / den) for num >= 0, den > 0: half goes to the even side
Round(num, den) ==
    LET q == num \div den
        r == num % den
    IN  IF 2 * r < den THEN q
        ELSE IF 2 * r > den THEN q + 1
        ELSE IF q % 2 = 0 THEN q ELSE q + 1

\* c_int16(x): the value the 16-bit argument of a driver call carries
Int16(x) == ((x + 32768) % 65536) - 32768

\* RANGE_TO_VOLTS.get(rng, 2.0), in millivolts
RANGE_TO_VOLTS(rng) ==
    CASE rng = 0 -> 10
      [] rng = 1 -> 20
      [] rng = 2 -> 50
      [] rng = 3 -> 100
      [] rng = 4 -> 200
      [] rng = 5 -> 500
      [] rng = 6 -> 1000
      [] rng = 7 -> 2000
      [] rng = 8 -> 5000
      [] rng = 9 -> 10000
      [] rng = 10 -> 20000
      [] OTHER -> 2000

\* max_adc.value if max_adc.value != 0 else 32767
EffectiveMaxAdc(max_adc) == IF max_adc # 0 THEN max_adc ELSE DefaultMaxAdc

\* a count * (volts / max_adc) that goes by 32767 whatever the device reported
ScaleByDefault(count, rng, max_adc) ==
    LET p == count * RANGE_TO_VOLTS(rng)
    IN  (p \div DefaultMaxAdc) * 1000 + ((p % DefaultMaxAdc) * 1000) \div DefaultMaxAdc

\* count * (full_scale_volts / max_adc), in microvolts: the floor of
\* count * millivolts * 1000 / max_adc, computed without leaving 32 bits
Scale(count, rng, max_adc) ==
    LET m == EffectiveMaxAdc(max_adc)
        p == count * RANGE_TO_VOLTS(rng)
    IN  (p \div m) * 1000 + ((p % m) * 1000) \div m

Zeros(n) == [i \in 1..n |-> 0]

\* np.linspace(0.0, stop, n): n points from 0 to stop; stop in ns
Linspace(stop, n) == [len |-> n, stop |-> stop]

\* int(max(10, round(window_s / dt_s)))
Depth(window_us, dt_ns) == Max(MinDepth, Round(window_us * 1000, dt_ns))

----------------------------------------------------------------------------
(* State                                                                   *)

VARIABLES
    streamer,   \* the PicoScopeStreamer object
    sdriver,    \* the driver and device behind the streamer's handle
    sworkers,   \* the threads created by PicoScopeStreamer.start
    scaller,    \* the foreground thread calling the streamer's methods
    delivered,  \* history: the volts copied into the ring since it was zeroed
    gate        \* history: the last callback and the trigger events so far

VARIABLES
    block,      \* the PicoScopeRapidBlock object
    bdriver,    \* the driver and device behind the block session's handle
    bworkers,   \* the threads created by PicoScopeRapidBlock.start
    bcaller,    \* the foreground thread calling the block session's methods
    program     \* the front end that runs: "streaming" or "block"

VARIABLES
    capture     \* the block front end's recorder, its last capture file and
                \* what read_acq_bin made of that file

vars == <<streamer, sdriver, sworkers, scaller, delivered, gate,
          block, bdriver, bworkers, bcaller, program, capture>>

\* a step of the streaming session leaves the block session alone, and the
\* other way round
BlockIdle == UNCHANGED <<block, bdriver, bworkers, bcaller, program, capture>>
StreamIdle ==
    UNCHANGED <<streamer, sdriver, sworkers, scaller, delivered, gate, program, capture>>

\* a step of the recorder or of the reader leaves both sessions alone
SessionsIdle ==
    UNCHANGED <<streamer, sdriver, sworkers, scaller, delivered, gate,
                block, bdriver, bworkers, bcaller, program>>

\* thread identities: lock holders and Thread objects
NoThread == 0
Caller == 0 - 1
WorkerIds == 1..MaxWorkers

----------------------------------------------------------------------------
(* PicoScopeStreamer: construction                                         *)

StreamConfigs ==
    [sample_interval_ns : SampleIntervals,
     plot_window_ms : WindowsUs,
     range_a : {PS5000A_2V},
     range_b : {PS5000A_2V},
     simple_trigger_enabled : BOOLEAN,
     trigger_source : Channels,
     trigger_threshold_pct : {100}]

\* PicoScopeStreamer.__init__
NewStreamer(cfg) ==
    LET dt == cfg.sample_interval_ns
        r == Round(cfg.plot_window_ms * 1000, dt)
        ring_len == IF r < MinDepth THEN MinDepth ELSE r
    IN  [cfg |-> cfg,
         max_adc |-> 0,
         lock |-> NoThread,
         running |-> FALSE,
         thread |-> NoThread,
         dt_s |-> dt,
         ring_len |-> ring_len,
         y_a |-> Zeros(ring_len),
         y_b |-> Zeros(ring_len),
         write_idx |-> 0,
         t |-> Linspace(cfg.plot_window_ms * 1000 - dt, ring_len),
         seen_trigger |-> FALSE,
         max_samples_per_segment |-> 0]

\* the device before ps5000aOpenUnit
NewDriver(max_value, min_interval) ==
    [unit_open |-> FALSE,
     streaming |-> FALSE,
     close_calls |-> 0,
     callbacks |-> 0,
     max_value |-> max_value,
     min_interval |-> min_interval,
     trigger |-> [enable |-> FALSE, counts |-> 0]]

----------------------------------------------------------------------------
(* PicoScopeStreamer._on_streaming_ready                                   *)

\* a gate that shuts again after every trigger event
GatePassEvery(self, n, triggered) ==
    /\ n > 0
    /\ ~ (self.cfg.simple_trigger_enabled /\ triggered = 0)

\* the gate: does the callback go on to the copy-in
GatePass(self, n, triggered) ==
    /\ n > 0
    /\ ~ (self.cfg.simple_trigger_enabled /\ ~ self.seen_trigger /\ triggered = 0)

\* a gate that any callback with samples opens
GateSeenAny(self, n, triggered) ==
    IF n > 0 /\ self.cfg.simple_trigger_enabled THEN TRUE ELSE self.seen_trigger

\* a gate that a trigger event opens whether or not it comes with samples
GateSeenOnEvent(self, n, triggered) ==
    IF self.cfg.simple_trigger_enabled /\ ~ self.seen_trigger /\ triggered # 0
    THEN TRUE
    ELSE self.seen_trigger

\* _seen_trigger after the gate
GateSeen(self, n, triggered) ==
    IF n > 0 /\ self.cfg.simple_trigger_enabled /\ ~ self.seen_trigger
       /\ triggered # 0
    THEN TRUE
    ELSE self.seen_trigger

\* a count that is not cut at the end of the scratch buffer
CountUncut(n, idx) == Max(0, n)

\* cnt = max(0, min(idx + n, driver_buffer_size) - idx)
Count(n, idx) == Max(0, Min(idx + n, DriverBufferSize) - idx)

\* the raw counts the driver left in the scratch buffers at idx .. idx+cnt-1:
\* sample k of the stream carries count k on channel A and -k on channel B
RawA(base, cnt) == [i \in 1..cnt |-> base + i]
RawB(base, cnt) == [i \in 1..cnt |-> 0 - (base + i)]

\* np.frombuffer(...) * scale
Volts(raw, rng, max_adc) == [i \in 1..Len(raw) |-> Scale(raw[i], rng, max_adc)]

\* a copy-in that drops what does not fit before the end of the ring
RingWriteNoWrap(y, write_idx, ring_len, a) ==
    LET cnt == Len(a) IN
    IF cnt >= ring_len
    THEN [i \in 1..Len(y) |-> a[cnt - ring_len + i]]
    ELSE LET write_end == Min(write_idx + cnt, ring_len)
         IN  [i \in 1..Len(y) |->
                 IF i - 1 >= write_idx /\ i - 1 < write_end
                 THEN a[i - write_idx]
                 ELSE y[i]]

\* a copy-in that keeps the head of a large chunk, not its tail
RingWriteHead(y, write_idx, ring_len, a) ==
    LET cnt == Len(a) IN
    IF cnt >= ring_len
    THEN [i \in 1..Len(y) |-> a[i]]
    ELSE LET write_end == Min(write_idx + cnt, ring_len)
             part1 == write_end - write_idx
             remaining == cnt - part1
         IN  [i \in 1..Len(y) |->
                 IF i - 1 < remaining THEN a[part1 + i]
                 ELSE IF i - 1 >= write_idx /\ i - 1 < write_end
                      THEN a[i - write_idx]
                      ELSE y[i]]

\* the ring after the copy-in of chunk a (lines 408-420), one channel
RingWrite(y, write_idx, ring_len, a) ==
    LET cnt == Len(a) IN
    IF cnt >= ring_len
    THEN [i \in 1..Len(y) |-> a[cnt - ring_len + i]]
    ELSE LET write_end == Min(write_idx + cnt, ring_len)
             part1 == write_end - write_idx
             remaining == cnt - part1
         IN  [i \in 1..Len(y) |->
                 IF i - 1 < remaining THEN a[part1 + i]
                 ELSE IF i - 1 >= write_idx /\ i - 1 < write_end
                      THEN a[i - write_idx]
                      ELSE y[i]]

\* a cursor that advances modulo the ring length whatever the count
NextWriteIdxModular(write_idx, ring_len, cnt) == (write_idx + cnt) % ring_len

\* _write_idx after the copy-in of cnt samples (lines 411, 421, 423)
NextWriteIdx(write_idx, ring_len, cnt) ==
    IF cnt >= ring_len THEN 0
    ELSE LET write_end == Min(write_idx + cnt, ring_len)
             remaining == cnt - (write_end - write_idx)
         IN  IF remaining > 0 THEN remaining ELSE write_end % ring_len

\* a copy-in whose locked section covers channel A only
CopyInChannelA(self, a, b) ==
    [self EXCEPT
        !.y_a = RingWrite(self.y_a, self.write_idx, self.ring_len, a),
        !.write_idx = NextWriteIdx(self.write_idx, self.ring_len, Len(a))]

\* the body of "with self._lock" in _on_streaming_ready
CopyIn(self, a, b) ==
    [self EXCEPT
        !.y_a = RingWrite(self.y_a, self.write_idx, self.ring_len, a),
        !.y_b = RingWrite(self.y_b, self.write_idx, self.ring_len, b),
        !.write_idx = NextWriteIdx(self.write_idx, self.ring_len, Len(a))]

----------------------------------------------------------------------------
(* PicoScopeStreamer: configuration methods.  A driver command is accepted *)
(* when the unit is open and the driver answers PICO_OK (the input ok).    *)

Accepted(drv, ok) == drv.unit_open /\ ok

SourceRange(cfg) ==
    IF cfg.trigger_source = PS5000A_CHANNEL_A THEN cfg.range_a ELSE cfg.range_b

\* counts = int(round((threshold_volts / full_scale_v) * max_adc)), clamped
TriggerCounts(threshold_volts, full_scale_v, max_adc) ==
    LET counts == Round(threshold_volts * max_adc, full_scale_v)
    IN  IF counts > max_adc THEN max_adc
        ELSE IF counts < 0 - max_adc THEN 0 - max_adc
        ELSE counts

\* an apply_trigger that stores nothing before the driver accepted
ApplyTriggerStoresLast(self, drv, enabled, threshold_volts, ok) ==
    LET full_scale_v == RANGE_TO_VOLTS(SourceRange(self.cfg))
        max_adc == EffectiveMaxAdc(self.max_adc)
        counts == TriggerCounts(threshold_volts, full_scale_v, max_adc)
    IN  IF Accepted(drv, ok)
        THEN [self |-> [self EXCEPT
                           !.cfg.simple_trigger_enabled = enabled,
                           !.cfg.trigger_threshold_pct =
                               (threshold_volts * 1000) \div full_scale_v,
                           !.seen_trigger = FALSE],
              drv |-> [drv EXCEPT !.trigger =
                         [enable |-> enabled,
                          counts |-> IF enabled THEN Int16(counts) ELSE 0]],
              raised |-> FALSE]
        ELSE [self |-> self, drv |-> drv, raised |-> TRUE]

\* PicoScopeStreamer.apply_trigger
ApplyTrigger(self, drv, enabled, threshold_volts, ok) ==
    LET full_scale_v == RANGE_TO_VOLTS(SourceRange(self.cfg))
        max_adc == EffectiveMaxAdc(self.max_adc)
        counts == TriggerCounts(threshold_volts, full_scale_v, max_adc)
        s1 == [self EXCEPT
                  !.cfg.simple_trigger_enabled = enabled,
                  !.cfg.trigger_threshold_pct =
                      (threshold_volts * 1000) \div full_scale_v]
    IN  IF Accepted(drv, ok)
        THEN [self |-> [s1 EXCEPT !.seen_trigger = FALSE],
              drv |-> [drv EXCEPT !.trigger =
                         [enable |-> enabled,
                          counts |-> IF enabled THEN Int16(counts) ELSE 0]],
              raised |-> FALSE]
        ELSE [self |-> s1, drv |-> drv, raised |-> TRUE]

\* a set_range that stores the range before it looks at the status
SetRangeStoresFirst(self, drv, channel, new_range, ok, ok2) ==
    LET s1 == IF channel = PS5000A_CHANNEL_A
              THEN [self EXCEPT !.cfg.range_a = new_range]
              ELSE [self EXCEPT !.cfg.range_b = new_range]
    IN  IF ~ Accepted(drv, ok)
        THEN [self |-> s1, drv |-> drv, raised |-> TRUE]
        ELSE IF s1.cfg.simple_trigger_enabled /\ channel = s1.cfg.trigger_source
             THEN LET volts == (s1.cfg.trigger_threshold_pct
                                  * RANGE_TO_VOLTS(new_range)) \div 1000
                      r == ApplyTrigger(s1, drv, TRUE, volts, ok2)
                  IN  [self |-> r.self, drv |-> r.drv, raised |-> FALSE]
             ELSE [self |-> s1, drv |-> drv, raised |-> FALSE]

\* a set_range that lets the exception of its apply_trigger through
SetRangeSurfaces(self, drv, channel, new_range, ok, ok2) ==
    IF ~ Accepted(drv, ok)
    THEN [self |-> self, drv |-> drv, raised |-> TRUE]
    ELSE LET s1 == IF channel = PS5000A_CHANNEL_A
                   THEN [self EXCEPT !.cfg.range_a = new_range]
                   ELSE [self EXCEPT !.cfg.range_b = new_range]
         IN  IF s1.cfg.simple_trigger_enabled /\ channel = s1.cfg.trigger_source
             THEN LET volts == (s1.cfg.trigger_threshold_pct
                                  * RANGE_TO_VOLTS(new_range)) \div 1000
                      r == ApplyTrigger(s1, drv, TRUE, volts, ok2)
                  IN  [self |-> r.self, drv |-> r.drv, raised |-> r.raised]
             ELSE [self |-> s1, drv |-> drv, raised |-> FALSE]

\* PicoScopeStreamer.set_range
SetRange(self, drv, channel, new_range, ok, ok2) ==
    IF ~ Accepted(drv, ok)
    THEN [self |-> self, drv |-> drv, raised |-> TRUE]
    ELSE LET s1 == IF channel = PS5000A_CHANNEL_A
                   THEN [self EXCEPT !.cfg.range_a = new_range]
                   ELSE [self EXCEPT !.cfg.range_b = new_range]
         IN  IF s1.cfg.simple_trigger_enabled /\ channel = s1.cfg.trigger_source
             THEN LET volts == (s1.cfg.trigger_threshold_pct
                                  * RANGE_TO_VOLTS(new_range)) \div 1000
                      r == ApplyTrigger(s1, drv, TRUE, volts, ok2)
                  IN  [self |-> r.self, drv |-> r.drv, raised |-> FALSE]
             ELSE [self |-> s1, drv |-> drv, raised |-> FALSE]

\* The driver calls of open, in order; fail is the first one the driver
\* rejects, 0 when it rejects none.
OpenUnitCall == 1
MaximumValueCall == 2
MemorySegmentsCall == 5
SetTriggerCall == 7
SetDataBufferBCall == 9
\* ps5000aChangePowerSource, made after ps5000aOpenUnit answered one of the
\* two power-source statuses; both sessions drop its status, so it is
\* numbered after the calls whose rejection stops open
ChangePowerSourceCall == 10

\* PicoScopeStreamer.open
Open(self, drv, fail) ==
    LET opened == fail # OpenUnitCall
        have_max == opened /\ fail # MaximumValueCall
        have_segment == have_max /\ (fail = 0 \/ fail > MemorySegmentsCall)
        s0 == IF have_max THEN [self EXCEPT !.max_adc = drv.max_value] ELSE self
        s1 == IF have_segment
              THEN [s0 EXCEPT !.max_samples_per_segment = DeviceMaxSamples]
              ELSE s0
        \* thresh_counts = int(self.max_adc.value * self.cfg.trigger_threshold_pct)
        thresh_counts == (s1.max_adc * s1.cfg.trigger_threshold_pct) \div 1000
        armed == /\ have_max
                 /\ s1.cfg.simple_trigger_enabled
                 /\ (fail = 0 \/ fail > SetTriggerCall)
        \* with the trigger off, open makes no set-trigger call to reject
        raised == /\ fail \notin {0, ChangePowerSourceCall}
                  /\ ~ (fail = SetTriggerCall /\ ~ s1.cfg.simple_trigger_enabled)
        d1 == [drv EXCEPT !.unit_open = opened \/ drv.unit_open]
    IN  [self |-> s1,
         drv |-> IF armed
                 THEN [d1 EXCEPT !.trigger =
                          [enable |-> TRUE, counts |-> Int16(thresh_counts)]]
                 ELSE d1,
         raised |-> raised]

\* PicoScopeStreamer.reconfigure_window_ms, up to the lock (lines 468-472)
WindowPrepare(self, new_window_ms) ==
    [self EXCEPT !.cfg.plot_window_ms = Max(MinWindowUs, new_window_ms)]

\* new_ring_len of reconfigure_window_ms and reconfigure_timebase
NewRingLen(self) == Depth(self.cfg.plot_window_ms, self.dt_s)

\* a reallocation that leaves the write cursor where it was
ReallocateKeepsCursor(self, new_ring_len) ==
    [self EXCEPT
        !.ring_len = new_ring_len,
        !.y_a = Zeros(new_ring_len),
        !.y_b = Zeros(new_ring_len),
        !.t = Linspace(self.cfg.plot_window_ms * 1000 - self.dt_s, new_ring_len)]

\* the body of "with self._lock" in reconfigure_window_ms and
\* reconfigure_timebase (lines 460-464 and 474-478)
Reallocate(self, new_ring_len) ==
    [self EXCEPT
        !.ring_len = new_ring_len,
        !.y_a = Zeros(new_ring_len),
        !.y_b = Zeros(new_ring_len),
        !.write_idx = 0,
        !.t = Linspace(self.cfg.plot_window_ms * 1000 - self.dt_s, new_ring_len)]

\* _ensure_sample_interval_supported: is the request finer than the device's
\* minimum, both driver queries having succeeded
MustClamp(self, drv, ok) ==
    Accepted(drv, ok) /\ self.cfg.sample_interval_ns < drv.min_interval

\* _ensure_sample_interval_supported, lines 444-445
ClampInterval(self, drv) ==
    [self EXCEPT !.cfg.sample_interval_ns = drv.min_interval,
                 !.dt_s = drv.min_interval]

\* _ensure_sample_interval_supported, the body of "with self._lock"
EnsureRetime(self) ==
    [self EXCEPT !.t = Linspace(self.cfg.plot_window_ms * 1000 - self.dt_s,
                                self.ring_len)]

\* reconfigure_timebase, line 451
TimebaseRequest(self, new_sample_interval_ns) ==
    [self EXCEPT !.cfg.sample_interval_ns = Max(1, new_sample_interval_ns)]

\* reconfigure_timebase, line 456
TimebaseSettle(self) == [self EXCEPT !.dt_s = self.cfg.sample_interval_ns]

\* reconfigure_timebase line 465: the value the method returns
TimebaseReturn(self) == self.cfg.sample_interval_ns

\* reconfigure_window_ms line 479: the value the method returns
WindowReturn(self) == self.cfg.plot_window_ms

\* reconfigure_window_ms(new_window_ms) from its first line to its return,
\* no other thread taking a step in between
ReconfigureWindow(self, new_window_ms) ==
    LET s1 == WindowPrepare(self, new_window_ms)
    IN  Reallocate(s1, NewRingLen(s1))

----------------------------------------------------------------------------
(* PicoScopeStreamer: the foreground thread                                *)

\* arg is the argument of the reconfigure_* call the thread is inside of
CallerStart ==
    [pc |-> "idle", op |-> "none", new_ring_len |-> 0, calls |-> 0, arg |-> 0]

\* the foreground thread is between two calls and may make one more
CanCall(caller) == caller.pc = "idle" /\ caller.calls < MaxCalls

\* the foreground thread after a call returned; op keeps the method's name
Return(caller) == [caller EXCEPT !.pc = "idle", !.new_ring_len = 0, !.arg = 0]

\* the foreground thread inside call op, at pc
Enter(caller, op, pc, new_ring_len) ==
    [caller EXCEPT !.pc = pc, !.op = op, !.new_ring_len = new_ring_len,
                   !.calls = caller.calls + 1]

\* the foreground thread after a call of op that ran in one step
Called(caller, op) == [caller EXCEPT !.op = op, !.calls = caller.calls + 1]

\* the foreground thread inside reconfigure_timebase(arg) or
\* reconfigure_window_ms(arg), at pc
EnterWith(caller, op, pc, new_ring_len, arg) ==
    [Enter(caller, op, pc, new_ring_len) EXCEPT !.arg = arg]

\* st2_ok: int(st2) == PICO_OK (line 356), from the return of
\* ps5000aGetStreamingLatestValues to the end of the iteration
NewWorker == [pc |-> "unborn", a |-> <<>>, b |-> <<>>, st2_ok |-> TRUE]

\* History of the trigger gate.  event_call: a callback reporting a trigger
\* event was accepted since apply_trigger was last called; event_arm: since
\* apply_trigger last returned normally (or since construction); n, idx,
\* triggered: the arguments of the last callback.
NoCallback ==
    [event_call |-> FALSE, event_arm |-> FALSE, n |-> 0, idx |-> 0, triggered |-> 0]

\* the history after _on_streaming_ready(n, idx, triggered)
Observed(g, n, idx, triggered) ==
    LET event == n > 0 /\ triggered # 0
    IN  [event_call |-> g.event_call \/ event,
         event_arm |-> g.event_arm \/ event,
         n |-> n, idx |-> idx, triggered |-> triggered]

\* the history after apply_trigger was called and raised or returned
Reapplied(g, raised) ==
    [g EXCEPT !.event_call = FALSE,
              !.event_arm = IF raised THEN g.event_arm ELSE FALSE]

\* set_range line 318: does it go on to apply_trigger
Reapplies(self, drv, channel, ok) ==
    /\ Accepted(drv, ok)
    /\ self.cfg.simple_trigger_enabled
    /\ channel = self.cfg.trigger_source

\* Thread.is_alive()
Alive(w) == sworkers[w].pc \notin {"unborn", "done", "dead"}

\* the state after PicoScopeStreamer(cfg), cfg among cfgs, on a device whose
\* max count is among maxs and whose least interval is among mins
Constructed(cfgs, maxs, mins) ==
    /\ \E cfg \in cfgs : streamer = NewStreamer(cfg)
    /\ \E mv \in maxs, mi \in mins : sdriver = NewDriver(mv, mi)
    /\ sworkers = [w \in WorkerIds |-> NewWorker]
    /\ scaller = CallerStart
    /\ delivered = [a |-> <<>>, b |-> <<>>]
    /\ gate = NoCallback

\* the streaming session, its trigger on or off
InitStream ==
    Constructed({c \in StreamConfigs : /\ c.trigger_source = PS5000A_CHANNEL_A
                                       /\ c.sample_interval_ns = 1000
                                       /\ c.plot_window_ms = 12},
                {32512}, {2000})

SOpen(fail) ==
    /\ program = "streaming"
    /\ CanCall(scaller)
    /\ ~ sdriver.unit_open
    /\ LET r == Open(streamer, sdriver, fail)
       IN  /\ streamer' = r.self
           /\ sdriver' = r.drv
    /\ scaller' = Called(scaller, "open")
    /\ UNCHANGED <<sworkers, delivered, gate>>
    /\ BlockIdle

SApplyTrigger(enabled, threshold_volts, ok) ==
    /\ program = "streaming"
    /\ CanCall(scaller)
    /\ LET r == ApplyTrigger(streamer, sdriver, enabled, threshold_volts, ok)
       IN  /\ streamer' = r.self
           /\ sdriver' = r.drv
           /\ gate' = Reapplied(gate, r.raised)
    /\ scaller' = Called(scaller, "apply_trigger")
    /\ UNCHANGED <<sworkers, delivered>>
    /\ BlockIdle

SSetRange(channel, new_range, ok, ok2) ==
    /\ program = "streaming"
    /\ CanCall(scaller)
    /\ LET r == SetRange(streamer, sdriver, channel, new_range, ok, ok2)
       IN  /\ streamer' = r.self
           /\ sdriver' = r.drv
           /\ gate' = IF Reapplies(streamer, sdriver, channel, ok)
                      THEN Reapplied(gate, ~ Accepted(sdriver, ok2))
                      ELSE gate
    /\ scaller' = Called(scaller, "set_range")
    /\ UNCHANGED <<sworkers, delivered>>
    /\ BlockIdle

\* the Thread object start() creates: the least identity not yet used
FreshWorker == CHOOSE w \in WorkerIds :
                  /\ sworkers[w].pc = "unborn"
                  /\ \A v \in WorkerIds : sworkers[v].pc = "unborn" => w <= v

\* PicoScopeStreamer.start
StartThread(self, w) == [self EXCEPT !.running = TRUE, !.thread = w]

SStart ==
    /\ program = "streaming"
    /\ CanCall(scaller)
    /\ IF streamer.running
       THEN UNCHANGED <<streamer, sworkers>>
       ELSE /\ \E w \in WorkerIds : sworkers[w].pc = "unborn"
            /\ streamer' = StartThread(streamer, FreshWorker)
            /\ sworkers' = [sworkers EXCEPT ![FreshWorker].pc = "run_streaming"]
    /\ scaller' = Called(scaller, "start")
    /\ UNCHANGED <<sdriver, delivered, gate>>
    /\ BlockIdle

\* ps5000aStop
DriverStop(drv) == [drv EXCEPT !.streaming = FALSE]

\* ps5000aCloseUnit
DriverCloseUnit(drv) ==
    [drv EXCEPT !.unit_open = FALSE,
                !.streaming = FALSE,
                !.close_calls = drv.close_calls + 1]

\* stop() as called directly (op = "stop") or from close() (op = "close"):
\* lines 364-371, up to the join
StopOrClose(op) ==
    /\ program = "streaming"
    /\ CanCall(scaller)
    /\ op = "close" => sdriver.close_calls < MaxCloseCalls
    /\ IF ~ streamer.running
       THEN \* stop() returns at once; close() goes on to ps5000aCloseUnit
            /\ sdriver' = IF op = "close" THEN DriverCloseUnit(sdriver) ELSE sdriver
            /\ scaller' = Called(scaller, op)
            /\ UNCHANGED streamer
       ELSE IF streamer.thread # NoThread /\ Alive(streamer.thread)
       THEN /\ streamer' = [streamer EXCEPT !.running = FALSE]
            /\ sdriver' = DriverStop(sdriver)
            /\ scaller' = Enter(scaller, op, "join", 0)
       ELSE /\ streamer' = [streamer EXCEPT !.running = FALSE, !.thread = NoThread]
            /\ sdriver' = IF op = "close"
                          THEN DriverCloseUnit(DriverStop(sdriver))
                          ELSE DriverStop(sdriver)
            /\ scaller' = Called(scaller, op)
    /\ UNCHANGED <<sworkers, delivered, gate>>
    /\ BlockIdle

SStop == StopOrClose("stop")
SClose == StopOrClose("close")

\* join(timeout=0.5) returns, the worker having ended or not; line 373, and
\* for close() the ps5000aCloseUnit that follows
SJoinReturn ==
    /\ scaller.pc = "join"
    /\ streamer' = [streamer EXCEPT !.thread = NoThread]
    /\ sdriver' = IF scaller.op = "close" THEN DriverCloseUnit(sdriver) ELSE sdriver
    /\ scaller' = Return(scaller)
    /\ UNCHANGED <<sworkers, delivered, gate>>
    /\ BlockIdle

\* reconfigure_window_ms up to the lock
SReconfigureWindow(new_window_ms) ==
    /\ program = "streaming"
    /\ CanCall(scaller)
    /\ LET s1 == WindowPrepare(streamer, new_window_ms)
       IN  /\ streamer' = s1
           /\ scaller' = EnterWith(scaller, "reconfigure_window_ms", "commit_lock",
                                   NewRingLen(s1), new_window_ms)
    /\ UNCHANGED <<sdriver, sworkers, delivered, gate>>
    /\ BlockIdle

\* reconfigure_timebase up to its first lock: the one of
\* _ensure_sample_interval_supported when the request is clamped
SReconfigureTimebase(new_sample_interval_ns, ok) ==
    /\ program = "streaming"
    /\ CanCall(scaller)
    /\ LET s1 == TimebaseRequest(streamer, new_sample_interval_ns)
       IN  IF MustClamp(s1, sdriver, ok)
           THEN /\ streamer' = ClampInterval(s1, sdriver)
                /\ scaller' = EnterWith(scaller, "reconfigure_timebase", "ensure_lock",
                                        0, new_sample_interval_ns)
           ELSE /\ streamer' = TimebaseSettle(s1)
                /\ scaller' = EnterWith(scaller, "reconfigure_timebase", "commit_lock",
                                        NewRingLen(TimebaseSettle(s1)),
                                        new_sample_interval_ns)
    /\ UNCHANGED <<sdriver, sworkers, delivered, gate>>
    /\ BlockIdle

\* "with self._lock": the foreground thread takes the lock
SCallerAcquire ==
    /\ scaller.pc \in {"ensure_lock", "commit_lock"}
    /\ streamer.lock = NoThread
    /\ streamer' = [streamer EXCEPT !.lock = Caller]
    /\ scaller' = [scaller EXCEPT !.pc = IF scaller.pc = "ensure_lock"
                                         THEN "ensure_locked"
                                         ELSE "commit_locked"]
    /\ UNCHANGED <<sdriver, sworkers, delivered, gate>>
    /\ BlockIdle

\* _ensure_sample_interval_supported line 448 and the release; then
\* reconfigure_timebase lines 456-458
SEnsureCommit ==
    /\ scaller.pc = "ensure_locked"
    /\ LET s1 == TimebaseSettle([EnsureRetime(streamer) EXCEPT !.lock = NoThread])
       IN  /\ streamer' = s1
           /\ scaller' = [scaller EXCEPT !.pc = "commit_lock",
                                         !.new_ring_len = NewRingLen(s1)]
    /\ UNCHANGED <<sdriver, sworkers, delivered, gate>>
    /\ BlockIdle

\* the locked reallocation of reconfigure_window_ms / reconfigure_timebase,
\* the release and the return
SCommit ==
    /\ scaller.pc = "commit_locked"
    /\ streamer' = [Reallocate(streamer, scaller.new_ring_len) EXCEPT !.lock = NoThread]
    /\ delivered' = [a |-> <<>>, b |-> <<>>]
    /\ scaller' = Return(scaller)
    /\ UNCHANGED <<sdriver, sworkers, gate>>
    /\ BlockIdle

----------------------------------------------------------------------------
(* PicoScopeStreamer: the worker thread _stream_loop and the callback      *)

\* the sample counts, start indexes and trigger flags the driver reports
PollCounts == {0, 1, DriverBufferSize}
PollIndexes == {0, DriverBufferSize - 1}
TriggerFlags == {0, 1}

\* ps5000aRunStreaming and _check_status (lines 341-352): a rejected command
\* raises in the thread, which ends it
WRunStreaming(w, ok) ==
    /\ sworkers[w].pc = "run_streaming"
    /\ IF Accepted(sdriver, ok)
       THEN /\ sdriver' = [sdriver EXCEPT !.streaming = TRUE]
            /\ sworkers' = [sworkers EXCEPT ![w].pc = "loop"]
       ELSE /\ sworkers' = [sworkers EXCEPT ![w].pc = "dead"]
            /\ UNCHANGED sdriver
    /\ UNCHANGED <<streamer, scaller, delivered, gate>>
    /\ BlockIdle

\* a loop head that does not test the flag
WLoopIgnoresFlag(w) ==
    /\ sworkers[w].pc = "loop"
    /\ sworkers' = [sworkers EXCEPT ![w].pc = "poll", ![w].st2_ok = TRUE]
    /\ UNCHANGED <<streamer, sdriver, scaller, delivered, gate>>
    /\ BlockIdle

\* "while self._running" (line 354), after the sleep of the last iteration
WLoop(w) ==
    /\ sworkers[w].pc = "loop"
    /\ sworkers' = [sworkers EXCEPT
                       ![w].pc = IF streamer.running THEN "poll" ELSE "done",
                       ![w].st2_ok = TRUE]
    /\ UNCHANGED <<streamer, sdriver, scaller, delivered, gate>>
    /\ BlockIdle

\* ps5000aGetStreamingLatestValues returns without calling back (no data, or
\* a status other than PICO_OK, which the loop ignores)
WPollQuiet(w) ==
    /\ sworkers[w].pc = "poll"
    /\ sworkers' = [sworkers EXCEPT ![w].pc = "loop"]
    /\ UNCHANGED <<streamer, sdriver, scaller, delivered, gate>>
    /\ BlockIdle

\* a status other than PICO_OK ends the thread
WPollRejectedEnds(w) ==
    /\ sworkers[w].pc = "poll"
    /\ sworkers' = [sworkers EXCEPT ![w].pc = "dead", ![w].st2_ok = FALSE]
    /\ UNCHANGED <<streamer, sdriver, scaller, delivered, gate>>
    /\ BlockIdle

\* ps5000aGetStreamingLatestValues answers a status other than PICO_OK, the
\* status being kept: "if int(st2) != PICO_OK: pass" and the sleep (lines
\* 355-358)
WPollRejected(w) ==
    /\ sworkers[w].pc = "poll"
    /\ sworkers' = [sworkers EXCEPT ![w].pc = "loop", ![w].st2_ok = FALSE]
    /\ UNCHANGED <<streamer, sdriver, scaller, delivered, gate>>
    /\ BlockIdle

\* the chunk the callback converts: cnt samples following the base-th
ChunkA(self, base, cnt) == Volts(RawA(base, cnt), self.cfg.range_a, self.max_adc)
ChunkB(self, base, cnt) == Volts(RawB(base, cnt), self.cfg.range_b, self.max_adc)

\* does the callback reach "with self._lock" (lines 388-404)
Copies(self, n, idx, triggered) ==
    GatePass(self, n, triggered) /\ Count(n, idx) > 0

\* ps5000aGetStreamingLatestValues calls _on_streaming_ready, which runs up
\* to "with self._lock" (lines 388-404)
WPoll(w, n, idx, triggered) ==
    /\ sworkers[w].pc = "poll"
    /\ sdriver.unit_open /\ sdriver.streaming
    /\ sdriver.callbacks < MaxCallbacks
    /\ sdriver' = [sdriver EXCEPT !.callbacks = sdriver.callbacks + 1]
    /\ streamer' = [streamer EXCEPT !.seen_trigger = GateSeen(streamer, n, triggered)]
    /\ sworkers' =
          IF Copies(streamer, n, idx, triggered)
          THEN [sworkers EXCEPT ![w] =
                   [pc |-> "cb_lock",
                    a |-> ChunkA(streamer, Len(delivered.a), Count(n, idx)),
                    b |-> ChunkB(streamer, Len(delivered.a), Count(n, idx)),
                    st2_ok |-> TRUE]]
          ELSE [sworkers EXCEPT ![w].pc = "loop", ![w].st2_ok = TRUE]
    /\ gate' = Observed(gate, n, idx, triggered)
    /\ UNCHANGED <<scaller, delivered>>
    /\ BlockIdle

\* "with self._lock" in the callback: the worker takes the lock
WAcquire(w) ==
    /\ sworkers[w].pc = "cb_lock"
    /\ streamer.lock = NoThread
    /\ streamer' = [streamer EXCEPT !.lock = w]
    /\ sworkers' = [sworkers EXCEPT ![w].pc = "cb_locked"]
    /\ UNCHANGED <<sdriver, scaller, delivered, gate>>
    /\ BlockIdle

\* the copy-in (lines 406-423), the release, the return of the poll call
WCopy(w) ==
    /\ sworkers[w].pc = "cb_locked"
    /\ streamer' = [CopyIn(streamer, sworkers[w].a, sworkers[w].b)
                       EXCEPT !.lock = NoThread]
    /\ delivered' = [a |-> delivered.a \o sworkers[w].a,
                     b |-> delivered.b \o sworkers[w].b]
    /\ sworkers' = [sworkers EXCEPT ![w] = [pc |-> "loop", a |-> <<>>, b |-> <<>>, st2_ok |-> TRUE]]
    /\ UNCHANGED <<sdriver, scaller, gate>>
    /\ BlockIdle

\* the streaming session: its methods and its worker
NextStream ==
    \/ \E fail \in {0, OpenUnitCall} : SOpen(fail)
    \/ \E enabled \in BOOLEAN, v \in ThresholdsMv, ok \in BOOLEAN :
          SApplyTrigger(enabled, v, ok)
    \/ \E channel \in Channels, r \in Ranges, ok \in BOOLEAN, ok2 \in BOOLEAN :
          SSetRange(channel, r, ok, ok2)
    \/ SStart
    \/ SStop
    \/ SClose
    \/ SJoinReturn
    \/ \E w \in WindowsUs : SReconfigureWindow(w)
    \/ \E x \in SampleIntervals, ok \in BOOLEAN : SReconfigureTimebase(x, ok)
    \/ SCallerAcquire
    \/ SEnsureCommit
    \/ SCommit
    \/ \E w \in WorkerIds, ok \in BOOLEAN : WRunStreaming(w, ok)
    \/ \E w \in WorkerIds : WLoop(w)
    \/ \E w \in WorkerIds : WPollQuiet(w)
    \/ \E w \in WorkerIds, n \in PollCounts, idx \in PollIndexes, tr \in TriggerFlags :
          WPoll(w, n, idx, tr)
    \/ \E w \in WorkerIds : WAcquire(w)
    \/ \E w \in WorkerIds : WCopy(w)

----------------------------------------------------------------------------
(* PicoScopeRapidBlock: construction and configuration methods             *)

\* the probe bound of _find_timebase
ProbeLimit == 50000

\* the intervals (ns) ps5000aGetTimebase2 reports for timebase 0, 1, 2, ...;
\* the driver rejects every index past the table
TimebaseTable == <<500, 1000, 2000, 4000>>

BlockConfigs ==
    [sample_interval_ns : SampleIntervals,
     plot_window_ms : {10},
     plot_max_points : {DeviceMaxSamples, DeviceMaxSamples + 1},
     range_a : {PS5000A_2V},
     range_b : {PS5000A_2V},
     simple_trigger_enabled : {TRUE},
     trigger_source : {PS5000A_CHANNEL_A},
     trigger_threshold_pct : {100}]

\* PicoScopeRapidBlock.__init__
NewBlock(cfg) ==
    LET dt == cfg.sample_interval_ns
        n == cfg.plot_max_points
    IN  [cfg |-> cfg,
         max_adc |-> DefaultMaxAdc,
         lock |-> NoThread,
         running |-> FALSE,
         thread |-> NoThread,
         dt_s |-> dt,
         n_samples |-> n,
         window_s |-> n * dt,
         buf_a |-> Zeros(n),
         buf_b |-> Zeros(n),
         y_a |-> Zeros(n),
         y_b |-> Zeros(n),
         t |-> Linspace(n * dt - dt, n),
         timebase |-> 0,
         max_samples_per_segment |-> 0]

\* the device before ps5000aOpenUnit.  tb0 tells whether the device offers
\* timebase 0 with both channels on; reg_a and reg_b tell whether the buffer
\* the driver holds for a channel is the session's current _buf_a / _buf_b;
\* fatal tells whether the worker's fatal branch released the handle and no
\* ps5000aOpenUnit has succeeded since.
NewBlockDriver(max_value, tb0) ==
    [unit_open |-> FALSE,
     close_calls |-> 0,
     captures |-> 0,
     max_value |-> max_value,
     tb0 |-> tb0,
     reg_a |-> FALSE,
     reg_b |-> FALSE,
     armed |-> 0,
     stale_write |-> FALSE,
     fatal |-> FALSE,
     trigger |-> [enable |-> FALSE, counts |-> 0]]

\* ps5000aGetTimebase2(handle, tb, ...) answers PICO_OK
TimebaseOk(drv, tb) ==
    /\ drv.unit_open
    /\ tb < Len(TimebaseTable)
    /\ tb = 0 => drv.tb0

\* tmp_dt.value after ps5000aGetTimebase2(handle, tb, ...) answered PICO_OK
TimebaseInterval(tb) == TimebaseTable[tb + 1]

\* the test of line 184
ProbeAccepts(drv, tb, desired_dt) ==
    /\ TimebaseOk(drv, tb)
    /\ \/ TimebaseInterval(tb) >= desired_dt
       \/ tb > 0 /\ TimebaseInterval(tb) > 0

\* the loop of _find_timebase from index tb on: the index it returns.  Past
\* the table every probe is rejected, so the loop runs to its bound.
RECURSIVE Probe(_, _, _)
Probe(drv, tb, desired_dt) ==
    IF ~ (tb < ProbeLimit) THEN tb
    ELSE IF ProbeAccepts(drv, tb, desired_dt) THEN tb
    ELSE IF tb >= Len(TimebaseTable) THEN ProbeLimit
    ELSE Probe(drv, tb + 1, desired_dt)

\* PicoScopeRapidBlock._find_timebase, and the assignment to _timebase that
\* both of its callers make
FindTimebase(self, drv) ==
    LET tb == Probe(drv, 0, self.cfg.sample_interval_ns)
    IN  IF tb < ProbeLimit
        THEN [self EXCEPT !.dt_s = TimebaseInterval(tb), !.timebase = tb]
        ELSE [self EXCEPT !.timebase = tb]

\* PicoScopeRapidBlock.apply_trigger
BlockApplyTrigger(self, drv, enabled, threshold_pct, ok) ==
    LET max_adc == EffectiveMaxAdc(self.max_adc)
        counts == Round(threshold_pct * max_adc, 1000)
        s1 == [self EXCEPT !.cfg.simple_trigger_enabled = enabled,
                           !.cfg.trigger_threshold_pct = threshold_pct]
    IN  IF Accepted(drv, ok)
        THEN [self |-> s1,
              drv |-> [drv EXCEPT !.trigger =
                         [enable |-> enabled,
                          counts |-> IF enabled THEN Int16(counts) ELSE 0]],
              raised |-> FALSE]
        ELSE [self |-> s1, drv |-> drv, raised |-> TRUE]

\* PicoScopeRapidBlock.set_range
BlockSetRange(self, drv, channel, new_range, ok) ==
    IF ~ Accepted(drv, ok)
    THEN [self |-> self, drv |-> drv, raised |-> TRUE]
    ELSE [self |-> IF channel = PS5000A_CHANNEL_A
                   THEN [self EXCEPT !.cfg.range_a = new_range]
                   ELSE [self EXCEPT !.cfg.range_b = new_range],
          drv |-> drv,
          raised |-> FALSE]

\* the allocation of lines 157-161, 323-327 and 341-345
BlockReallocate(self) ==
    [self EXCEPT
        !.buf_a = Zeros(self.n_samples),
        !.buf_b = Zeros(self.n_samples),
        !.y_a = Zeros(self.n_samples),
        !.y_b = Zeros(self.n_samples),
        !.t = Linspace(self.window_s - self.dt_s, self.n_samples)]

\* the driver's buffers after the session replaced _buf_a and _buf_b
Unregistered(drv) == [drv EXCEPT !.reg_a = FALSE, !.reg_b = FALSE]

\* The driver calls of PicoScopeRapidBlock.open, in order; fail is the first
\* one the driver rejects, 0 when it rejects none.
BlockSetChannelCall == 3
BlockMemorySegmentsCall == 5
BlockSetTriggerCall == 6

\* PicoScopeRapidBlock.open
BlockOpen(self, drv, fail) ==
    LET opened == fail # OpenUnitCall
        d1 == [drv EXCEPT !.unit_open = opened \/ drv.unit_open,
                          !.fatal = drv.fatal /\ ~ opened]
        \* ps5000aMaximumValue: its status is not looked at
        s1 == IF opened /\ fail # MaximumValueCall
              THEN [self EXCEPT !.max_adc = drv.max_value] ELSE self
        stop_at == IF ~ opened THEN BlockSetChannelCall
                   ELSE IF fail = MaximumValueCall THEN 0 ELSE fail
        s2 == [s1 EXCEPT !.max_samples_per_segment = DeviceMaxSamples]
        clamp == s2.n_samples > DeviceMaxSamples
        s3 == IF clamp
              THEN BlockReallocate([s2 EXCEPT !.n_samples = DeviceMaxSamples])
              ELSE s2
        d3 == IF clamp THEN Unregistered(d1) ELSE d1
        tr == BlockApplyTrigger(s3, d3, s3.cfg.simple_trigger_enabled,
                                s3.cfg.trigger_threshold_pct,
                                stop_at # BlockSetTriggerCall)
    IN  IF stop_at # 0 /\ stop_at <= BlockMemorySegmentsCall
        THEN [self |-> s1, drv |-> d1, raised |-> TRUE]
        ELSE IF tr.raised
        THEN [self |-> tr.self, drv |-> tr.drv, raised |-> TRUE]
        ELSE [self |-> FindTimebase(tr.self, tr.drv), drv |-> tr.drv,
              raised |-> FALSE]

----------------------------------------------------------------------------
(* PicoScopeRapidBlock: the foreground thread                              *)

\* interrupted: stop() cleared the running flag while this worker was in the
\* readiness loop of its current iteration
NewBlockWorker ==
    [pc |-> "unborn", ready |-> 0, cnt |-> 0, range_a |-> 0, range_b |-> 0,
     interrupted |-> FALSE]

\* the workers as a stop() that clears the flag finds them
Interrupted(workers) ==
    [w \in WorkerIds |->
        IF workers[w].pc = "wait"
        THEN [workers[w] EXCEPT !.interrupted = TRUE]
        ELSE workers[w]]

----------------------------------------------------------------------------
(* The recorder of the block front end and the reader of its files         *)

\* A voltage is a whole number of units of 2^-10 V (1024 is 1 V); a file is
\* its sequence of bytes; an array read from a file is the sequence of its
\* elements, each the bytes it is stored in.

Abs(x) == IF x < 0 THEN 0 - x ELSE x

\* the position of the leading bit of n > 0
RECURSIVE Log2(_)
Log2(n) == IF n < 2 THEN 0 ELSE 1 + Log2(n \div 2)

\* astype(np.float16) of one sample: the 16 bits of the IEEE half nearest to
\* x, ties to the even significand; 1 sign bit, 5 exponent bits biased by
\* 15, 10 fraction bits.  For magnitudes from 2^-10 V up to the half's
\* largest finite value.
Float16Bits(x) ==
    LET mag == Abs(x)
        e == Log2(mag)
        sign == IF x < 0 THEN 32768 ELSE 0
        step == 2 ^ (e - 10)
        q == mag \div step
        r == mag % step
        up == (2 * r > step) \/ (2 * r = step /\ (q % 2) = 1)
        m == IF e <= 10 THEN mag * 2 ^ (10 - e) ELSE IF up THEN q + 1 ELSE q
        carry == m = 2048
        field == IF carry THEN 0 ELSE m - 1024
        biased == (IF carry THEN e + 1 ELSE e) + 5
    IN  IF mag = 0 THEN 0 ELSE sign + biased * 1024 + field

\* the voltage a half stands for, for the halves Float16Bits produces
Float16Value(bits) ==
    LET biased == (bits % 32768) \div 1024
        m == 1024 + (bits % 1024)
        mag == IF biased >= 15 THEN m * 2 ^ (biased - 15) ELSE m \div 2 ^ (15 - biased)
    IN  IF (bits % 32768) = 0 THEN 0 ELSE IF bits >= 32768 THEN 0 - mag ELSE mag

\* y.astype(np.float16).tofile(f): two bytes a sample, low byte first
ToFile(y) ==
    [i \in 1..(2 * Len(y)) |->
        LET bits == Float16Bits(y[(i + 1) \div 2])
        IN  IF (i % 2) = 1 THEN bits % 256 ELSE bits \div 256]

\* a capture file that holds channel B before channel A
SaveSnapshotBFirst(ya, yb) == ToFile(yb) \o ToFile(ya)

\* the two writes of update_plot (lines 307-309)
SaveSnapshot(ya, yb) == ToFile(ya) \o ToFile(yb)

\* dt = np.float16 if dtype == "float16" else np.float32 (line 40)
ItemSize(dtype) == IF dtype = "float16" THEN 2 ELSE 4

\* np.fromfile(path, dtype=dt): the whole elements of the file
FromFile(file, dtype) ==
    [i \in 1..(Len(file) \div ItemSize(dtype)) |->
        SubSeq(file, (i - 1) * ItemSize(dtype) + 1, i * ItemSize(dtype))]

\* the bits of an element read at 2-byte precision
ElementBits(element) == element[1] + 256 * element[2]

\* the bytes of an array of elements
RECURSIVE Flatten(_)
Flatten(elements) ==
    IF elements = <<>> THEN <<>> ELSE Head(elements) \o Flatten(Tail(elements))

\* a reader that splits whatever it read
ReadAcqBinNoCheck(exists, file, dtype) ==
    IF ~ exists
    THEN [raised |-> "FileNotFoundError", a |-> <<>>, b |-> <<>>]
    ELSE LET data == FromFile(file, dtype)
             n == Len(data) \div 2
         IN  [raised |-> "none", a |-> SubSeq(data, 1, n),
              b |-> SubSeq(data, n + 1, Len(data))]

\* read_acq_bin(path, dtype) (lines 37-49): what it raises and what it returns
read_acq_bin(exists, file, dtype) ==
    IF ~ exists
    THEN [raised |-> "FileNotFoundError", a |-> <<>>, b |-> <<>>]
    ELSE LET data == FromFile(file, dtype)
             n == Len(data) \div 2
         IN  IF (Len(data) % 2) # 0
             THEN [raised |-> "ValueError", a |-> <<>>, b |-> <<>>]
             ELSE [raised |-> "none", a |-> SubSeq(data, 1, n),
                   b |-> SubSeq(data, n + 1, Len(data))]

\* no call of read_acq_bin since the file was last written
NotRead == [called |-> FALSE, dtype |-> "float16", raised |-> "none",
            a |-> <<>>, b |-> <<>>]

\* MainWindow.__init__ (lines 272-274) and no capture file yet.  recorded
\* tells whether the file is the recorder's; ya and yb are then the snapshot
\* it was written from.
NewCapture ==
    [rec_on |-> FALSE, rec_count |-> 0, exists |-> FALSE, recorded |-> FALSE,
     file |-> <<>>, ya |-> <<>>, yb |-> <<>>, res |-> NotRead]

\* _on_start_rec with a folder chosen; the button is disabled while recording
OnStartRec ==
    /\ program = "block"
    /\ ~ capture.rec_on
    /\ capture' = [capture EXCEPT !.rec_on = TRUE, !.rec_count = 0]
    /\ SessionsIdle

\* _on_stop_rec; metadata.txt is not a capture file
OnStopRec ==
    /\ program = "block"
    /\ capture.rec_on
    /\ capture' = [capture EXCEPT !.rec_on = FALSE]
    /\ SessionsIdle

\* update_plot (lines 278-312) with ya and yb what the copies under the lock
\* gave: the plot is outside the model, the recording is the file acq_NNN.bin
UpdatePlot(ya, yb) ==
    /\ program = "block"
    /\ block.running
    /\ block.lock = NoThread
    /\ capture.rec_count < MaxRecordings
    /\ capture' = IF capture.rec_on /\ Len(ya) # 0 /\ Len(yb) # 0
                  THEN [capture EXCEPT !.rec_count = capture.rec_count + 1,
                                       !.exists = TRUE,
                                       !.recorded = TRUE,
                                       !.file = SaveSnapshot(ya, yb),
                                       !.ya = ya,
                                       !.yb = yb,
                                       !.res = NotRead]
                  ELSE capture
    /\ SessionsIdle

\* a file the recorder did not write is put where the reader will look
ForeignFile(bytes) ==
    /\ program = "block"
    /\ ~ capture.rec_on
    /\ capture' = [capture EXCEPT !.exists = TRUE,
                                  !.recorded = FALSE,
                                  !.file = bytes,
                                  !.ya = <<>>,
                                  !.yb = <<>>,
                                  !.res = NotRead]
    /\ SessionsIdle

\* read_acq_bin(path, dtype) on the last file
ReadAcqBin(dtype) ==
    /\ program = "block"
    /\ LET r == read_acq_bin(capture.exists, capture.file, dtype)
       IN  capture' = [capture EXCEPT !.res = [called |-> TRUE, dtype |-> dtype,
                                               raised |-> r.raised,
                                               a |-> r.a, b |-> r.b]]
    /\ SessionsIdle

----------------------------------------------------------------------------

\* Thread.is_alive()
BlockAlive(w) == bworkers[w].pc \notin {"unborn", "done"}

\* the state after PicoScopeRapidBlock(cfg), cfg among cfgs
BlockConstructed(cfgs) ==
    /\ \E cfg \in cfgs : block = NewBlock(cfg)
    /\ bdriver = NewBlockDriver(32512, FALSE)
    /\ bworkers = [w \in WorkerIds |-> NewBlockWorker]
    /\ bcaller = CallerStart
    /\ capture = NewCapture

\* the block session asked for more points than the device's segment holds
InitBlock ==
    BlockConstructed({c \in BlockConfigs : /\ c.sample_interval_ns = 1000
                                           /\ c.plot_max_points > DeviceMaxSamples})

BOpen(fail) ==
    /\ program = "block"
    /\ CanCall(bcaller)
    /\ ~ bdriver.unit_open
    /\ LET r == BlockOpen(block, bdriver, fail)
       IN  /\ block' = r.self
           /\ bdriver' = r.drv
    /\ bcaller' = Called(bcaller, "open")
    /\ UNCHANGED bworkers
    /\ StreamIdle

BApplyTrigger(enabled, threshold_pct, ok) ==
    /\ program = "block"
    /\ CanCall(bcaller)
    /\ LET r == BlockApplyTrigger(block, bdriver, enabled, threshold_pct, ok)
       IN  /\ block' = r.self
           /\ bdriver' = r.drv
    /\ bcaller' = Called(bcaller, "apply_trigger")
    /\ UNCHANGED bworkers
    /\ StreamIdle

BSetRange(channel, new_range, ok) ==
    /\ program = "block"
    /\ CanCall(bcaller)
    /\ LET r == BlockSetRange(block, bdriver, channel, new_range, ok)
       IN  /\ block' = r.self
           /\ bdriver' = r.drv
    /\ bcaller' = Called(bcaller, "set_range")
    /\ UNCHANGED bworkers
    /\ StreamIdle

\* the Thread object start() creates: the least identity not yet used
BlockFreshWorker == CHOOSE w \in WorkerIds :
                       /\ bworkers[w].pc = "unborn"
                       /\ \A v \in WorkerIds : bworkers[v].pc = "unborn" => w <= v

\* PicoScopeRapidBlock.start
BlockStartThread(self, w) == [self EXCEPT !.running = TRUE, !.thread = w]

BStart ==
    /\ program = "block"
    /\ CanCall(bcaller)
    /\ IF block.running
       THEN UNCHANGED <<block, bworkers>>
       ELSE /\ \E w \in WorkerIds : bworkers[w].pc = "unborn"
            /\ block' = BlockStartThread(block, BlockFreshWorker)
            /\ bworkers' = [bworkers EXCEPT ![BlockFreshWorker].pc = "top"]
    /\ bcaller' = Called(bcaller, "start")
    /\ UNCHANGED bdriver
    /\ StreamIdle

\* ps5000aCloseUnit
BlockCloseUnit(drv) ==
    [drv EXCEPT !.unit_open = FALSE, !.close_calls = drv.close_calls + 1]

\* stop() as called directly (op = "stop") or from close() (op = "close"):
\* lines 301-309, up to the join
BlockStopOrClose(op) ==
    /\ program = "block"
    /\ CanCall(bcaller)
    /\ op = "close" => bdriver.close_calls < MaxCloseCalls
    /\ IF ~ block.running
       THEN \* stop() returns at once; close() goes on to ps5000aCloseUnit
            /\ bdriver' = IF op = "close" THEN BlockCloseUnit(bdriver) ELSE bdriver
            /\ bcaller' = Called(bcaller, op)
            /\ UNCHANGED <<block, bworkers>>
       ELSE IF block.thread # NoThread /\ BlockAlive(block.thread)
       THEN /\ block' = [block EXCEPT !.running = FALSE]
            /\ bcaller' = Enter(bcaller, op, "join", 0)
            /\ bworkers' = Interrupted(bworkers)
            /\ UNCHANGED bdriver
       ELSE /\ block' = [block EXCEPT !.running = FALSE, !.thread = NoThread]
            /\ bdriver' = IF op = "close" THEN BlockCloseUnit(bdriver) ELSE bdriver
            /\ bcaller' = Called(bcaller, op)
            /\ bworkers' = Interrupted(bworkers)
    /\ StreamIdle

BStop == BlockStopOrClose("stop")
BClose == BlockStopOrClose("close")

\* join(timeout=0.5) returns, the worker having ended or not; line 311, and
\* for close() the ps5000aCloseUnit that follows
BJoinReturn ==
    /\ bcaller.pc = "join"
    /\ block' = [block EXCEPT !.thread = NoThread]
    /\ bdriver' = IF bcaller.op = "close" THEN BlockCloseUnit(bdriver) ELSE bdriver
    /\ bcaller' = Return(bcaller)
    /\ UNCHANGED bworkers
    /\ StreamIdle

\* the clamp of lines 319-321 and 337-339
ClampDepth(self, n) ==
    IF self.max_samples_per_segment # 0 /\ n > self.max_samples_per_segment
    THEN self.max_samples_per_segment
    ELSE n

\* reconfigure_timebase, lines 314-321
BlockTimebasePrepare(self, new_sample_interval_ns) ==
    LET dt == Max(1, new_sample_interval_ns)
    IN  [self EXCEPT
            !.cfg.sample_interval_ns = dt,
            !.dt_s = dt,
            !.window_s = self.cfg.plot_window_ms * 1000,
            !.n_samples = ClampDepth(self, Depth(self.cfg.plot_window_ms, dt))]

\* reconfigure_window_ms, lines 333-339
BlockWindowPrepare(self, new_window_ms) ==
    LET w == Max(MinWindowUs, new_window_ms)
    IN  [self EXCEPT
            !.cfg.plot_window_ms = w,
            !.window_s = w * 1000,
            !.n_samples = ClampDepth(self, Depth(w, self.dt_s))]

\* reconfigure_timebase line 330: the value the method returns
BlockTimebaseReturn(self) == self.cfg.sample_interval_ns

\* reconfigure_window_ms line 348: the value the method returns
BlockWindowReturn(self) == self.cfg.plot_window_ms

\* reconfigure_window_ms(new_window_ms) from its first line to its return,
\* no other thread taking a step in between
BlockReconfigureWindow(self, drv, new_window_ms) ==
    FindTimebase(BlockReallocate(BlockWindowPrepare(self, new_window_ms)), drv)

BReconfigureTimebase(new_sample_interval_ns) ==
    /\ program = "block"
    /\ CanCall(bcaller)
    /\ block' = BlockTimebasePrepare(block, new_sample_interval_ns)
    /\ bcaller' = EnterWith(bcaller, "reconfigure_timebase", "commit_lock", 0,
                            new_sample_interval_ns)
    /\ UNCHANGED <<bdriver, bworkers>>
    /\ StreamIdle

BReconfigureWindow(new_window_ms) ==
    /\ program = "block"
    /\ CanCall(bcaller)
    /\ block' = BlockWindowPrepare(block, new_window_ms)
    /\ bcaller' = EnterWith(bcaller, "reconfigure_window_ms", "commit_lock", 0,
                            new_window_ms)
    /\ UNCHANGED <<bdriver, bworkers>>
    /\ StreamIdle

\* "with self._lock": the foreground thread takes the lock
BCallerAcquire ==
    /\ bcaller.pc = "commit_lock"
    /\ block.lock = NoThread
    /\ block' = [block EXCEPT !.lock = Caller]
    /\ bcaller' = [bcaller EXCEPT !.pc = "commit_locked"]
    /\ UNCHANGED <<bdriver, bworkers>>
    /\ StreamIdle

\* the locked reallocation (lines 323-327, 341-345) and the release
BCommit ==
    /\ bcaller.pc = "commit_locked"
    /\ block' = [BlockReallocate(block) EXCEPT !.lock = NoThread]
    /\ bdriver' = Unregistered(bdriver)
    /\ bcaller' = [bcaller EXCEPT !.pc = "find_timebase"]
    /\ UNCHANGED bworkers
    /\ StreamIdle

\* lines 329-330 and 347-348: _find_timebase and the return
BFindTimebase ==
    /\ bcaller.pc = "find_timebase"
    /\ block' = FindTimebase(block, bdriver)
    /\ bcaller' = Return(bcaller)
    /\ UNCHANGED <<bdriver, bworkers>>
    /\ StreamIdle

----------------------------------------------------------------------------
(* PicoScopeRapidBlock: the worker thread _loop                            *)

\* captures the device completes in one behaviour
MaxCaptures == 2

\* the end of an iteration and the next test of "while self._running" (line
\* 239): at "sleep" the worker first sleeps the pacing sleep of line 295, at
\* "top" it tests the flag at once (a new thread, or the continue of line
\* 278)
BWTop(w) ==
    /\ bworkers[w].pc \in {"top", "sleep"}
    /\ bworkers' = [bworkers EXCEPT ![w].pc =
                       IF block.running THEN "set_a" ELSE "done",
                                     ![w].interrupted = FALSE]
    /\ UNCHANGED <<block, bdriver, bcaller>>
    /\ StreamIdle

\* ps5000aSetDataBuffer(A) and _check_status: a rejected command raises, the
\* loop swallows it and sleeps
BWSetBufferA(w, ok) ==
    /\ bworkers[w].pc = "set_a"
    /\ IF Accepted(bdriver, ok)
       THEN /\ bdriver' = [bdriver EXCEPT !.reg_a = TRUE]
            /\ bworkers' = [bworkers EXCEPT ![w].pc = "set_b"]
       ELSE /\ bworkers' = [bworkers EXCEPT ![w].pc = "sleep"]
            /\ UNCHANGED bdriver
    /\ UNCHANGED <<block, bcaller>>
    /\ StreamIdle

\* a loop in which a rejected ps5000aSetDataBuffer(B) ends the thread
BWSetBufferBFatal(w, ok) ==
    /\ bworkers[w].pc = "set_b"
    /\ IF Accepted(bdriver, ok)
       THEN /\ bdriver' = [bdriver EXCEPT !.reg_b = TRUE]
            /\ bworkers' = [bworkers EXCEPT ![w].pc = "run_block"]
       ELSE /\ bworkers' = [bworkers EXCEPT ![w].pc = "done"]
            /\ UNCHANGED bdriver
    /\ UNCHANGED <<block, bcaller>>
    /\ StreamIdle

\* ps5000aSetDataBuffer(B)
BWSetBufferB(w, ok) ==
    /\ bworkers[w].pc = "set_b"
    /\ IF Accepted(bdriver, ok)
       THEN /\ bdriver' = [bdriver EXCEPT !.reg_b = TRUE]
            /\ bworkers' = [bworkers EXCEPT ![w].pc = "run_block"]
       ELSE /\ bworkers' = [bworkers EXCEPT ![w].pc = "sleep"]
            /\ UNCHANGED bdriver
    /\ UNCHANGED <<block, bcaller>>
    /\ StreamIdle

\* a failure branch that leaves the flag set
FatalRunBlockKeepsRunning(self) == self

\* the fatal branch of lines 249-262
FatalRunBlock(self) == [self EXCEPT !.running = FALSE]

\* ps5000aRunBlock (lines 247-262)
BWRunBlock(w, ok) ==
    /\ bworkers[w].pc = "run_block"
    /\ IF Accepted(bdriver, ok)
       THEN /\ bdriver' = [bdriver EXCEPT !.armed = block.n_samples]
            /\ bworkers' = [bworkers EXCEPT ![w].pc = "wait", ![w].ready = 0]
            /\ UNCHANGED block
       ELSE /\ block' = FatalRunBlock(block)
            /\ bdriver' = [BlockCloseUnit(bdriver) EXCEPT !.fatal = TRUE]
            /\ bworkers' = [bworkers EXCEPT ![w].pc = "done"]
    /\ UNCHANGED bcaller
    /\ StreamIdle

\* one test of "while self._running and ready == 0" (line 265): with the
\* flag cleared the loop ends and line 269 is next; with the flag set and
\* ready nonzero the loop ends, and line 269 either finds the flag set, or
\* finds it cleared as the test of line 265 would have a moment later; else
\* the body, ps5000aIsReady, which sets ready
BWWait(w, ready) ==
    /\ bworkers[w].pc = "wait"
    /\ bworkers' =
          IF ~ block.running THEN [bworkers EXCEPT ![w].pc = "wait_exit"]
          ELSE IF bworkers[w].ready # 0
               THEN [bworkers EXCEPT ![w].pc = "get_values"]
               ELSE [bworkers EXCEPT ![w].ready = ready]
    /\ UNCHANGED <<block, bdriver, bcaller>>
    /\ StreamIdle

\* "if not self._running: break" (lines 269-270) after the loop ended on a
\* cleared flag: the flag is read again
BWWaitExit(w) ==
    /\ bworkers[w].pc = "wait_exit"
    /\ bworkers' = [bworkers EXCEPT ![w].pc =
                       IF ~ block.running THEN "done" ELSE "get_values",
                                     ![w].interrupted =
                                        bworkers[w].interrupted /\ block.running]
    /\ UNCHANGED <<block, bdriver, bcaller>>
    /\ StreamIdle

\* what ps5000aGetValues leaves in a scratch buffer: cnt fresh counts, when
\* the buffer is the one the driver holds
Captured(buf, raw, registered) ==
    IF registered
    THEN [i \in 1..Len(buf) |-> IF i <= Len(raw) THEN raw[i] ELSE buf[i]]
    ELSE buf

\* the sample counts ps5000aGetValues reports when asked for n_samps
DeliveredCounts(n_samps) == {0, n_samps - 1, n_samps} \cap 0..n_samps

\* ps5000aGetValues rejected: _check_status raises, the loop swallows it
BWGetValuesFails(w) ==
    /\ bworkers[w].pc = "get_values"
    /\ bworkers' = [bworkers EXCEPT ![w].pc = "sleep"]
    /\ UNCHANGED <<block, bdriver, bcaller>>
    /\ StreamIdle

\* a loop that ends an empty capture with the pacing sleep
AfterGetValuesSleeps(cnt) == IF cnt <= 0 THEN "sleep" ELSE "pub_lock"

\* "if cnt <= 0: continue" (lines 277-278): where the worker goes next
AfterGetValues(cnt) == IF cnt <= 0 THEN "top" ELSE "pub_lock"

\* ps5000aGetValues accepted, delivering cnt samples with the counts raw_a
\* and raw_b (lines 272-282)
BWGetValuesOf(w, cnt, raw_a, raw_b) ==
    /\ bworkers[w].pc = "get_values"
    /\ bdriver.unit_open
    /\ bdriver.captures < MaxCaptures
    /\ cnt \in DeliveredCounts(Min(block.n_samples, bdriver.armed))
    /\ block' = [block EXCEPT
          !.buf_a = Captured(block.buf_a, raw_a, bdriver.reg_a),
          !.buf_b = Captured(block.buf_b, raw_b, bdriver.reg_b)]
    /\ bdriver' = [bdriver EXCEPT
          !.captures = bdriver.captures + 1,
          !.stale_write = \/ bdriver.stale_write
                          \/ cnt > 0 /\ ~ (bdriver.reg_a /\ bdriver.reg_b)
                          \/ cnt > Len(block.buf_a)]
    /\ bworkers' =
          IF cnt <= 0
          THEN [bworkers EXCEPT ![w].pc = AfterGetValues(cnt)]
          ELSE [bworkers EXCEPT ![w].pc = AfterGetValues(cnt),
                                ![w].cnt = cnt,
                                ![w].range_a = block.cfg.range_a,
                                ![w].range_b = block.cfg.range_b]
    /\ UNCHANGED bcaller
    /\ StreamIdle

\* the retrieve of the capture whose sample k carries count k and -k
BWGetValues(w, cnt) ==
    BWGetValuesOf(w, cnt, RawA(bdriver.captures, cnt), RawB(bdriver.captures, cnt))

\* "with self._lock" in the loop: the worker takes the lock
BWAcquire(w) ==
    /\ bworkers[w].pc = "pub_lock"
    /\ block.lock = NoThread
    /\ block' = [block EXCEPT !.lock = w]
    /\ bworkers' = [bworkers EXCEPT ![w].pc = "pub_locked"]
    /\ UNCHANGED <<bdriver, bcaller>>
    /\ StreamIdle

\* the first cnt elements of a sequence
Take(s, cnt) == [i \in 1..cnt |-> s[i]]

\* a publish that never resizes the time axis
PublishKeepAxis(self, cnt, range_a, range_b) ==
    IF cnt > Len(self.buf_a) \/ cnt > Len(self.buf_b)
    THEN self
    ELSE [self EXCEPT
            !.y_a = Volts(Take(self.buf_a, cnt), range_a, self.max_adc),
            !.y_b = Volts(Take(self.buf_b, cnt), range_b, self.max_adc)]

\* the body of "with self._lock" in the loop (lines 284-290); np.frombuffer
\* raises when the buffer holds fewer than cnt counts
Publish(self, cnt, range_a, range_b) ==
    IF cnt > Len(self.buf_a) \/ cnt > Len(self.buf_b)
    THEN self
    ELSE [self EXCEPT
            !.t = IF cnt # self.t.len
                  THEN Linspace(self.window_s - self.dt_s, cnt)
                  ELSE self.t,
            !.y_a = Volts(Take(self.buf_a, cnt), range_a, self.max_adc),
            !.y_b = Volts(Take(self.buf_b, cnt), range_b, self.max_adc)]

\* the publish, the release and the pacing sleep
BWPublish(w) ==
    /\ bworkers[w].pc = "pub_locked"
    /\ block' = [Publish(block, bworkers[w].cnt, bworkers[w].range_a,
                         bworkers[w].range_b) EXCEPT !.lock = NoThread]
    /\ bworkers' = [bworkers EXCEPT ![w] = [NewBlockWorker EXCEPT !.pc = "sleep"]]
    /\ UNCHANGED <<bdriver, bcaller>>
    /\ StreamIdle

\* the block worker's steps
NextBlockWorker ==
    \/ \E w \in WorkerIds : BWTop(w)
    \/ \E w \in WorkerIds, ok \in BOOLEAN : BWSetBufferA(w, ok)
    \/ \E w \in WorkerIds, ok \in BOOLEAN : BWSetBufferB(w, ok)
    \/ \E w \in WorkerIds, ok \in BOOLEAN : BWRunBlock(w, ok)
    \/ \E w \in WorkerIds, ready \in {0, 1} : BWWait(w, ready)
    \/ \E w \in WorkerIds : BWWaitExit(w)
    \/ \E w \in WorkerIds : BWGetValuesFails(w)
    \/ \E w \in WorkerIds, cnt \in 0..(DeviceMaxSamples + 1) : BWGetValues(w, cnt)
    \/ \E w \in WorkerIds : BWAcquire(w)
    \/ \E w \in WorkerIds : BWPublish(w)

\* the block session's life cycle and reconfiguration
NextBlock ==
    \/ \E fail \in {0, OpenUnitCall} : BOpen(fail)
    \/ BStart
    \/ BStop
    \/ BClose
    \/ BJoinReturn
    \/ \E w \in WindowsUs : BReconfigureWindow(w)
    \/ \E x \in SampleIntervals : BReconfigureTimebase(x)
    \/ BCallerAcquire
    \/ BCommit
    \/ BFindTimebase
    \/ NextBlockWorker

----------------------------------------------------------------------------
(* Specifications                                                          *)

\* _on_streaming_ready(n, idx, triggered) run from its first line to its
\* return with no other thread taking a step: the gate, then the copy-in
\* under the lock; raw_a and raw_b are the counts the driver left in the
\* scratch buffers at idx .. idx+cnt-1
OnStreamingReadyOf(n, idx, triggered, raw_a, raw_b) ==
    /\ sdriver.callbacks < MaxRingCallbacks
    /\ streamer.lock = NoThread
    /\ sdriver' = [sdriver EXCEPT !.callbacks = sdriver.callbacks + 1]
    /\ gate' = Observed(gate, n, idx, triggered)
    /\ LET s1 == [streamer EXCEPT !.seen_trigger = GateSeen(streamer, n, triggered)]
           a == Volts(raw_a, streamer.cfg.range_a, streamer.max_adc)
           b == Volts(raw_b, streamer.cfg.range_b, streamer.max_adc)
       IN  IF Copies(streamer, n, idx, triggered)
           THEN /\ streamer' = CopyIn(s1, a, b)
                /\ delivered' = [a |-> delivered.a \o a, b |-> delivered.b \o b]
           ELSE /\ streamer' = s1
                /\ UNCHANGED delivered
    /\ UNCHANGED <<sworkers, scaller>>
    /\ BlockIdle

\* the callback on the stream whose sample k carries count k and -k
OnStreamingReady(n, idx, triggered) ==
    OnStreamingReadyOf(n, idx, triggered,
                       RawA(Len(delivered.a), Count(n, idx)),
                       RawB(Len(delivered.b), Count(n, idx)))

\* a ring of each length the windows give, trigger off, cursor 0
InitRing ==
    /\ Constructed({c \in StreamConfigs : /\ ~ c.simple_trigger_enabled
                                          /\ c.trigger_source = PS5000A_CHANNEL_A
                                          /\ c.sample_interval_ns = 1000},
                   {32512}, {2000})
    /\ InitBlock
    /\ program = "streaming"

\* the sample counts and start indexes of the ring specification
RingCounts == 0..(DriverBufferSize + 1)
RingIndexes == {0, DriverBufferSize \div 2, DriverBufferSize, DriverBufferSize + 1}

NextRing ==
    \E n \in RingCounts, idx \in RingIndexes, tr \in TriggerFlags :
        OnStreamingReady(n, idx, tr)

\* the callback alone, called over and over on a fresh session
SpecRing == InitRing /\ [][NextRing]_vars

\* either front end runs: program tells which one the user launched
Init ==
    /\ program \in {"streaming", "block"}
    /\ InitStream
    /\ InitBlock

Next ==
    \/ NextStream
    \/ NextBlock

Spec == Init /\ [][Next]_vars

\* one step of streaming worker w, whichever its place
StreamWorkerStep(w) ==
    \/ \E ok \in BOOLEAN : WRunStreaming(w, ok)
    \/ WLoop(w)
    \/ WPollQuiet(w)
    \/ \E n \in PollCounts, idx \in PollIndexes, tr \in TriggerFlags :
          WPoll(w, n, idx, tr)
    \/ WAcquire(w)
    \/ WCopy(w)

\* one step of block worker w, whichever its place
BlockWorkerStep(w) ==
    \/ BWTop(w)
    \/ \E ok \in BOOLEAN : BWSetBufferA(w, ok)
    \/ \E ok \in BOOLEAN : BWSetBufferB(w, ok)
    \/ \E ok \in BOOLEAN : BWRunBlock(w, ok)
    \/ \E ready \in {0, 1} : BWWait(w, ready)
    \/ BWWaitExit(w)
    \/ BWGetValuesFails(w)
    \/ \E cnt \in 0..(DeviceMaxSamples + 1) : BWGetValues(w, cnt)
    \/ BWAcquire(w)
    \/ BWPublish(w)

\* the foreground thread goes on inside the call it is in
CallerStep ==
    \/ SJoinReturn
    \/ SCallerAcquire
    \/ SEnsureCommit
    \/ SCommit
    \/ BJoinReturn
    \/ BCallerAcquire
    \/ BCommit
    \/ BFindTimebase

\* Every thread that can take a step takes one in the end: the sleeps, the
\* bounded join and the locked sections are finite and every driver call
\* returns.
Fairness ==
    /\ \A w \in WorkerIds : WF_vars(StreamWorkerStep(w))
    /\ \A w \in WorkerIds : WF_vars(BlockWorkerStep(w))
    /\ WF_vars(CallerStep)

\* either front end, its threads scheduled fairly
SpecLive == Init /\ [][Next]_vars /\ Fairness

\* the streaming session alone, on an opened unit or not, the status of each
\* rejected poll kept until the end of the iteration
\* the sample counts of a poll, with one that leaves the cursor of the
\* longer ring beyond the length of the shorter one
LongPollCounts == PollCounts \cup {DriverBufferSize - 1}

NextPoll ==
    \/ \E fail \in {0, OpenUnitCall} : SOpen(fail)
    \/ SStart
    \/ SStop
    \/ SClose
    \/ SJoinReturn
    \/ \E w \in WindowsUs : SReconfigureWindow(w)
    \/ SCallerAcquire
    \/ SCommit
    \/ \E w \in WorkerIds, ok \in BOOLEAN : WRunStreaming(w, ok)
    \/ \E w \in WorkerIds : WLoop(w)
    \/ \E w \in WorkerIds : WPollQuiet(w)
    \/ \E w \in WorkerIds : WPollRejected(w)
    \/ \E w \in WorkerIds, n \in LongPollCounts, idx \in PollIndexes, tr \in TriggerFlags :
          WPoll(w, n, idx, tr)
    \/ \E w \in WorkerIds : WAcquire(w)
    \/ \E w \in WorkerIds : WCopy(w)

SpecPoll == InitRing /\ [][NextPoll]_vars

\* the snapshots update_plot can take (the three arrays have one length
\* whenever the lock is free) and the files a reader can be given, one of
\* each length, every byte different from the others
SnapshotsA(n) == [1..n -> SamplesA]
SnapshotsB(n) == [1..n -> SamplesB]
Files == {[i \in 1..n |-> i] : n \in 0..MaxFileBytes}

\* the block front end recording a running session, and read_acq_bin
\* applied to the file it wrote last or to a file of any content
NextRecord ==
    \/ BStart
    \/ OnStartRec
    \/ OnStopRec
    \/ \E n \in 0..MaxSnapshot :
          \E ya \in SnapshotsA(n), yb \in SnapshotsB(n) : UpdatePlot(ya, yb)
    \/ \E bytes \in Files : ForeignFile(bytes)
    \/ \E dtype \in DTypes : ReadAcqBin(dtype)

InitRecord == Init /\ program = "block"

SpecRecord == InitRecord /\ [][NextRecord]_vars

\* the block session after open() has returned normally; calls are counted
\* from here
InitCycle ==
    /\ program = "block"
    /\ InitStream
    /\ \E cfg \in {c \in BlockConfigs : /\ c.sample_interval_ns = 1000
                                        /\ c.plot_max_points > DeviceMaxSamples} :
          LET r == BlockOpen(NewBlock(cfg), NewBlockDriver(32512, FALSE), 0)
          IN  /\ block = r.self
              /\ bdriver = r.drv
    /\ bworkers = [w \in WorkerIds |-> NewBlockWorker]
    /\ bcaller = CallerStart
    /\ capture = NewCapture

\* the cycles of the block workers of an open session under start() and
\* stop()
NextCycle ==
    \/ BStart
    \/ BStop
    \/ BJoinReturn
    \/ NextBlockWorker

SpecCycle == InitCycle /\ [][NextCycle]_vars

\* a session that is not acquiring: open, close and the two methods that
\* configure the channels and the trigger
NextConfig ==
    \/ \E fail \in {0, OpenUnitCall} : SOpen(fail)
    \/ SClose
    \/ \E enabled \in BOOLEAN, v \in ThresholdsMv, ok \in BOOLEAN :
          SApplyTrigger(enabled, v, ok)
    \/ \E channel \in Channels, r \in Ranges, ok \in BOOLEAN, ok2 \in BOOLEAN :
          SSetRange(channel, r, ok, ok2)
    \/ \E fail \in {0, OpenUnitCall} : BOpen(fail)
    \/ BClose
    \/ \E enabled \in BOOLEAN, pct \in ThresholdsPct, ok \in BOOLEAN :
          BApplyTrigger(enabled, pct, ok)
    \/ \E channel \in Channels, r \in Ranges, ok \in BOOLEAN :
          BSetRange(channel, r, ok)

SpecConfig == Init /\ [][NextConfig]_vars

\* the windows (microseconds) a stopped session is asked for: below the
\* floor, inside the device's segment, and beyond it
ReconfWindowsUs == WindowsUs \cup {DeviceMaxSamples + 2}

\* a session that is never started, constructed with any of its configurations
InitReconf ==
    \/ /\ program = "streaming"
       /\ Constructed({c \in StreamConfigs : /\ ~ c.simple_trigger_enabled
                                             /\ c.trigger_source = PS5000A_CHANNEL_A},
                      {32512}, {2000})
       /\ InitBlock
    \/ /\ program = "block"
       /\ Constructed({c \in StreamConfigs : /\ ~ c.simple_trigger_enabled
                                             /\ c.trigger_source = PS5000A_CHANNEL_A
                                             /\ c.sample_interval_ns = 1000
                                             /\ c.plot_window_ms = 12},
                      {32512}, {2000})
       /\ BlockConstructed(BlockConfigs)

\* open, close and the reconfigurations, called on a session with no worker;
\* open may be rejected at ps5000aOpenUnit or, the unit open, at
\* ps5000aSetChannel
NextReconf ==
    \/ \E fail \in {0, OpenUnitCall, ChangePowerSourceCall} : SOpen(fail)
    \/ SClose
    \/ \E w \in ReconfWindowsUs : SReconfigureWindow(w)
    \/ \E x \in SampleIntervals, ok \in BOOLEAN : SReconfigureTimebase(x, ok)
    \/ SCallerAcquire
    \/ SEnsureCommit
    \/ SCommit
    \/ \E fail \in {0, OpenUnitCall, MaximumValueCall, BlockSetChannelCall} :
          BOpen(fail)
    \/ BClose
    \/ \E w \in ReconfWindowsUs : BReconfigureWindow(w)
    \/ \E x \in SampleIntervals : BReconfigureTimebase(x)
    \/ BCallerAcquire
    \/ BCommit
    \/ BFindTimebase

\* the stopped session: configuration calls only
SpecReconf == InitReconf /\ [][NextReconf]_vars

----------------------------------------------------------------------------
(* Properties                                                              *)

\* the last n elements of a sequence, n <= Len(s)
LastN(s, n) == [i \in 1..n |-> s[Len(s) - n + i]]

\* a ring read in ring order, oldest sample first: from the write cursor on
RingOrder(y, write_idx) ==
    [i \in 1..Len(y) |-> y[((write_idx + i - 1) % Len(y)) + 1]]

\* the step is one call of _on_streaming_ready
IsCallback == sdriver'.callbacks = sdriver.callbacks + 1

\* the samples the last callback delivered into the scratch buffers
LastCount == Count(gate.n, gate.idx)

\* the places of a worker inside "while self._running"
LoopPcs == {"loop", "poll", "cb_lock", "cb_locked"}
BlockLoopPcs == {"top", "sleep", "set_a", "set_b", "run_block", "wait", "wait_exit",
                 "get_values",
                 "pub_lock", "pub_locked"}

\* C1: in the streaming and in the block session, in every state where the
\* buffer lock is not held, the time axis, the voltage-A array and the
\* voltage-B array have the same length, whatever reconfigure_window_ms and
\* reconfigure_timebase calls were interleaved with the publishes.
BufferConsistency ==
    /\ streamer.lock = NoThread =>
          /\ streamer.t.len = Len(streamer.y_a)
          /\ streamer.t.len = Len(streamer.y_b)
    /\ block.lock = NoThread =>
          /\ block.t.len = Len(block.y_a)
          /\ block.t.len = Len(block.y_b)

\* a reconfiguration set the depth to the floor, then a capture one sample
\* short was published, and the lock is free
BufferConsistencyReached ==
    /\ block.lock = NoThread
    /\ block.n_samples = MinDepth
    /\ bdriver.captures >= 1
    /\ Len(block.y_a) = MinDepth - 1
    /\ Len(block.y_b) = MinDepth - 1
    /\ block.t.len = MinDepth - 1

\* C2: for any sequence of start() and stop() calls on a session, stop()'s
\* join timing out included, at most one worker executes the acquisition loop
\* at any time; and start() while already running creates no worker and
\* issues no driver command.
SingleWorker ==
    /\ [](/\ Cardinality({w \in WorkerIds : sworkers[w].pc \in LoopPcs}) <= 1
          /\ Cardinality({w \in WorkerIds : bworkers[w].pc \in BlockLoopPcs}) <= 1)
    /\ [][/\ (/\ streamer.running
              /\ scaller'.calls = scaller.calls + 1
              /\ scaller'.op = "start")
             => sworkers' = sworkers /\ sdriver' = sdriver
          /\ (/\ block.running
              /\ bcaller'.calls = bcaller.calls + 1
              /\ bcaller'.op = "start")
             => bworkers' = bworkers /\ bdriver' = bdriver]_vars

\* C3: for every sequence of operations on a session the device handle is
\* released exactly once: CloseUnit is never issued a second time, neither by
\* a later close() nor by close() after the block worker closed the device.
ReleasedOnce ==
    /\ sdriver.close_calls <= 1
    /\ bdriver.close_calls <= 1


\* C4: copy-in without gating, from a ring of length N with cursor 0: after
\* a delivery of s samples, 1 <= s < N, the write cursor is
\* (cursor_before + s) mod N; after a delivery of s = N samples it is 0.
CursorAdvance ==
    [][LET s == Count(gate'.n, gate'.idx)
           N == streamer.ring_len
       IN  (IsCallback /\ gate'.n > 0 /\ 1 <= s /\ s <= N)
           => streamer'.write_idx =
                 IF s = N THEN 0 ELSE (streamer.write_idx + s) % N]_vars

\* a delivery of exactly N samples met a cursor that was not 0
CursorAdvanceReached ==
    /\ sdriver.callbacks >= 2
    /\ LastCount = streamer.ring_len
    /\ Len(delivered.a) % streamer.ring_len # 0
    /\ Len(delivered.a) < 2 * streamer.ring_len
    /\ streamer.write_idx = 0

\* C4 as stated: after every delivery of s samples, 1 <= s <= N, the write
\* cursor is (cursor_before + s) mod N.
CursorAdvanceModular ==
    [][LET s == Count(gate'.n, gate'.idx)
           N == streamer.ring_len
       IN  (IsCallback /\ gate'.n > 0 /\ 1 <= s /\ s <= N)
           => streamer'.write_idx = (streamer.write_idx + s) % N]_vars

\* C5: copy-in without gating, from a zero-filled ring of length N with
\* cursor 0: after any deliveries the ring, read in ring order from the write
\* cursor, holds the last N values of the delivered stream, after zeros when
\* fewer than N values were delivered; the same on channel A and channel B.
RingHoldsLastN ==
    LET N == streamer.ring_len
    IN  /\ RingOrder(streamer.y_a, streamer.write_idx)
              = LastN(Zeros(N) \o delivered.a, N)
        /\ RingOrder(streamer.y_b, streamer.write_idx)
              = LastN(Zeros(N) \o delivered.b, N)

\* three deliveries wrapped the ring once and left the cursor inside it,
\* where the wrap ended
RingHoldsLastNReached ==
    /\ sdriver.callbacks = MaxRingCallbacks
    /\ Len(delivered.a) > streamer.ring_len + 1
    /\ Len(delivered.a) < 2 * streamer.ring_len
    /\ streamer.write_idx = Len(delivered.a) - streamer.ring_len
    /\ streamer.y_a[1] # 0
    /\ streamer.y_b[streamer.ring_len] # 0

\* C6: a single accepted delivery of cnt >= N samples leaves the ring equal
\* to the last N samples of that delivery, in order, whatever the ring and
\* the cursor were before, and leaves the write cursor at 0.
WholesaleOverwrite ==
    [][LET cnt == Count(gate'.n, gate'.idx)
           N == streamer.ring_len
           first == Len(delivered.a) + 1
           a == SubSeq(delivered'.a, first, Len(delivered'.a))
           b == SubSeq(delivered'.b, first, Len(delivered'.b))
       IN  (IsCallback /\ GatePass(streamer, gate'.n, gate'.triggered) /\ cnt >= N)
           => /\ Len(a) = cnt /\ Len(b) = cnt
              /\ streamer'.y_a = LastN(a, N)
              /\ streamer'.y_b = LastN(b, N)
              /\ streamer'.write_idx = 0]_vars

\* a delivery larger than the ring came after a smaller one had moved the
\* cursor
WholesaleOverwriteReached ==
    /\ sdriver.callbacks >= 2
    /\ gate.n > 0
    /\ LastCount > streamer.ring_len
    /\ (Len(delivered.a) - LastCount) % streamer.ring_len # 0
    /\ streamer.write_idx = 0
    /\ streamer.y_a = LastN(delivered.a, streamer.ring_len)

\* C7: with the simple trigger enabled, once a callback reporting a trigger
\* event has been accepted after the last apply_trigger call, every later
\* callback that delivers at least one sample goes on to the copy-in with its
\* samples, whatever its triggered flag, across start/stop and
\* reconfigurations, until apply_trigger is called again.
GateStaysOpen ==
    [][(/\ IsCallback
        /\ streamer.cfg.simple_trigger_enabled
        /\ gate.event_call
        /\ Count(gate'.n, gate'.idx) >= 1)
       => \E w \in WorkerIds :
             /\ sworkers[w].pc = "poll"
             /\ sworkers'[w].pc = "cb_lock"
             /\ Len(sworkers'[w].a) = Count(gate'.n, gate'.idx)
             /\ Len(sworkers'[w].b) = Count(gate'.n, gate'.idx)]_vars

\* after a trigger event, a callback with triggered = 0 was copied in
GateStaysOpenReached ==
    /\ streamer.cfg.simple_trigger_enabled
    /\ gate.event_call
    /\ sdriver.callbacks >= 2
    /\ gate.triggered = 0
    /\ LastCount >= 1
    /\ streamer.seen_trigger
    /\ Len(delivered.a) >= 2
    /\ \A w \in WorkerIds : sworkers[w].pc \notin {"cb_lock", "cb_locked"}

\* C8: every re-application of the trigger configuration, by apply_trigger
\* or by set_range on the trigger-source channel, resets the gating to
\* un-triggered: with the trigger enabled and no trigger event reported since
\* the last re-application, the gate is shut.
RearmResetsGate ==
    (streamer.cfg.simple_trigger_enabled /\ ~ gate.event_call)
    => ~ streamer.seen_trigger

AdequateTimebases(self, drv) ==
    {tb \in 0..(Len(TimebaseTable) - 1) :
        /\ TimebaseOk(drv, tb)
        /\ TimebaseInterval(tb) >= self.cfg.sample_interval_ns}

\* C10: _find_timebase returns the first index whose device-reported interval
\* is >= the requested interval; whenever some index is adequate, the index
\* it returns does not have a smaller interval than the requested one.
FirstAdequateTimebase ==
    [][(\/ bcaller.pc = "find_timebase" /\ bcaller'.pc = "idle"
        \/ bdriver'.unit_open /\ ~ bdriver.unit_open)
       => LET adequate == AdequateTimebases(block', bdriver')
          IN  adequate # {} =>
                 /\ block'.timebase \in adequate
                 /\ \A tb \in adequate : block'.timebase <= tb
                 /\ block'.dt_s >= block'.cfg.sample_interval_ns]_vars

\* the step is the return of the streamer's reconfigure_* call op
SReturns(op) ==
    scaller.pc = "commit_locked" /\ scaller'.pc = "idle" /\ scaller.op = op

\* the step is the return of the block session's reconfigure_* call op
BReturns(op) ==
    bcaller.pc = "find_timebase" /\ bcaller'.pc = "idle" /\ bcaller.op = op

\* C11: streaming session: for every requested interval x, when
\* reconfigure_timebase(x) returns, the sample interval the session stores
\* and returns is not smaller than x, and when x is finer than the minimum
\* achievable interval of the open device it is that minimum.
TimebaseClamp ==
    [][SReturns("reconfigure_timebase")
       => LET x == scaller.arg
              r == TimebaseReturn(streamer')
          IN  /\ r >= x
              /\ streamer'.cfg.sample_interval_ns = r
              /\ streamer'.dt_s = r
              /\ (sdriver.unit_open /\ x < sdriver.min_interval)
                    => r = sdriver.min_interval]_vars

\* C12: in both sessions and in every reachable stopped state, of two
\* reconfigure_window_ms(w) calls in a row with the same w the second leaves
\* voltage and time buffers of the same length as the first, and neither
\* changes the achieved sample interval dt.
IdempotentWindow ==
    /\ scaller.pc = "idle" =>
          \A w \in ReconfWindowsUs :
             LET s1 == ReconfigureWindow(streamer, w)
                 s2 == ReconfigureWindow(s1, w)
             IN  /\ Len(s2.y_a) = Len(s1.y_a)
                 /\ Len(s2.y_b) = Len(s1.y_b)
                 /\ s2.t.len = s1.t.len
                 /\ s1.dt_s = streamer.dt_s
                 /\ s2.dt_s = s1.dt_s
    /\ bcaller.pc = "idle" =>
          \A w \in ReconfWindowsUs :
             LET s1 == BlockReconfigureWindow(block, bdriver, w)
                 s2 == BlockReconfigureWindow(s1, bdriver, w)
             IN  /\ Len(s2.y_a) = Len(s1.y_a)
                 /\ Len(s2.y_b) = Len(s1.y_b)
                 /\ s2.t.len = s1.t.len
                 /\ s1.dt_s = block.dt_s
                 /\ s2.dt_s = s1.dt_s

\* C13: for every sequence of reconfigure_timebase / reconfigure_window_ms
\* calls, with or without a start in between, and publishes: whenever the
\* lock is free the declared sample depth (streaming: _ring_len, block:
\* _n_samples) equals the length of the voltage-A array, of the voltage-B
\* array and of the time axis.
DepthConsistency ==
    /\ streamer.lock = NoThread =>
          /\ streamer.ring_len = Len(streamer.y_a)
          /\ streamer.ring_len = Len(streamer.y_b)
          /\ streamer.ring_len = streamer.t.len
    /\ block.lock = NoThread =>
          /\ block.n_samples = Len(block.y_a)
          /\ block.n_samples = Len(block.y_b)
          /\ block.n_samples = block.t.len

\* C14: reconfigure_timebase(x) returns the achieved sample interval: in
\* both sessions the value returned equals the interval dt the session uses
\* from then on for its time axis and its depth computation.
ReturnsAchievedInterval ==
    [][/\ SReturns("reconfigure_timebase")
             => TimebaseReturn(streamer') = streamer'.dt_s
       /\ BReturns("reconfigure_timebase")
             => BlockTimebaseReturn(block') = block'.dt_s]_vars

\* round(window / dt), not less than the 10-sample floor, clamped to the
\* samples per segment the session has learnt from the device
SizedDepth(window_ns, dt_ns, max_samples) ==
    LET n == Max(MinDepth, Round(window_ns, dt_ns))
    IN  IF max_samples # 0 /\ n > max_samples THEN max_samples ELSE n

\* C15: in both sessions, after construction or open and after every
\* reconfigure_timebase or reconfigure_window_ms call, the buffer length is
\* round(window_duration / achieved_interval), not less than the 10-sample
\* floor, clamped to the device's maximum samples per segment, the achieved
\* interval being the one the resolver reported.
SizedByAchieved ==
    /\ scaller.pc = "idle" =>
          LET n == SizedDepth(streamer.cfg.plot_window_ms * 1000, streamer.dt_s,
                              streamer.max_samples_per_segment)
          IN  /\ Len(streamer.y_a) = n
              /\ Len(streamer.y_b) = n
              /\ streamer.t.len = n
    /\ bcaller.pc = "idle" =>
          LET n == SizedDepth(block.window_s, block.dt_s,
                              block.max_samples_per_segment)
          IN  /\ Len(block.y_a) = n
              /\ Len(block.y_b) = n
              /\ block.t.len = n

\* C16: in both sessions reconfigure_window_ms(w) stores the window
\* max(0.01 ms, w), recomputes the depth from the current achieved interval,
\* clamped to the device's maximum, and returns the achieved window: the
\* duration the reallocated buffer spans, depth times achieved interval, also
\* when the depth was clamped.
ReturnsAchievedWindow ==
    [][/\ SReturns("reconfigure_window_ms")
             => /\ streamer'.cfg.plot_window_ms = Max(MinWindowUs, scaller.arg)
                /\ streamer'.ring_len =
                      SizedDepth(streamer'.cfg.plot_window_ms * 1000, streamer.dt_s,
                                 streamer.max_samples_per_segment)
                /\ streamer'.dt_s = streamer.dt_s
                /\ WindowReturn(streamer') * 1000
                      = streamer'.ring_len * streamer'.dt_s
       /\ BReturns("reconfigure_window_ms")
             => /\ block'.cfg.plot_window_ms = Max(MinWindowUs, bcaller.arg)
                /\ block'.n_samples =
                      SizedDepth(block'.cfg.plot_window_ms * 1000, block'.dt_s,
                                 block.max_samples_per_segment)
                /\ BlockWindowReturn(block') * 1000
                      = block'.n_samples * block'.dt_s]_vars

\* C17: once stop() has cleared the running flag, and unless a later start()
\* sets it again, every worker inside the acquisition loop leaves it in the
\* end, every driver call returning; a worker leaves at the top of an
\* iteration (block: or at a readiness-poll check, or by the fatal branch)
\* and, having left, takes no further step, so writes no buffer.
WorkerLeavesLoop ==
    /\ \A w \in WorkerIds :
          (~ streamer.running /\ sworkers[w].pc \in LoopPcs)
             ~> (streamer.running \/ sworkers[w].pc \notin LoopPcs)
    /\ \A w \in WorkerIds :
          (~ block.running /\ bworkers[w].pc \in BlockLoopPcs)
             ~> (block.running \/ bworkers[w].pc \notin BlockLoopPcs)
    /\ [][\A w \in WorkerIds :
             /\ sworkers[w].pc = "done" => sworkers'[w] = sworkers[w]
             /\ bworkers[w].pc = "done" => bworkers'[w] = bworkers[w]
             /\ (sworkers[w].pc \in LoopPcs /\ sworkers'[w].pc \notin LoopPcs)
                   => /\ sworkers[w].pc = "loop"
                      /\ ~ streamer.running
                      /\ sworkers'[w].pc = "done"
             /\ (bworkers[w].pc \in BlockLoopPcs /\ bworkers'[w].pc \notin BlockLoopPcs)
                   => /\ \/ bworkers[w].pc \in {"top", "sleep", "wait_exit"} /\ ~ block.running
                         \/ bworkers[w].pc = "run_block"
                      /\ bworkers'[w].pc = "done"]_vars

\* a block worker that had published a capture left its loop after stop()
WorkerLeavesLoopReached ==
    /\ bcaller.op = "stop"
    /\ bcaller.pc = "idle"
    /\ ~ block.running
    /\ ~ bdriver.fatal
    /\ bdriver.captures >= 1
    /\ block.y_a[1] # 0
    /\ \E w \in WorkerIds : bworkers[w].pc = "done"


\* C18: when ps5000aRunBlock is rejected, the step of the block worker that
\* issued it clears the running flag, closes the device once and ends the
\* worker; it arms no capture and publishes nothing, so the displayed buffers,
\* the time axis and the scratch buffers keep their contents, and the worker,
\* having ended, never polls, retrieves or publishes.
FatalRunBlockStops ==
    [][\A w \in WorkerIds :
          /\ (bworkers[w].pc = "run_block" /\ bworkers'[w].pc \notin {"run_block", "wait"})
                => /\ ~ block'.running
                   /\ ~ bdriver'.unit_open
                   /\ bdriver'.close_calls = bdriver.close_calls + 1
                   /\ bdriver'.captures = bdriver.captures
                   /\ bdriver'.armed = bdriver.armed
                   /\ bworkers'[w].pc = "done"
                   /\ block'.y_a = block.y_a
                   /\ block'.y_b = block.y_b
                   /\ block'.t = block.t
                   /\ block'.buf_a = block.buf_a
                   /\ block'.buf_b = block.buf_b
          /\ bworkers[w].pc = "done" => bworkers'[w].pc = "done"]_vars

\* a capture was published, then ps5000aRunBlock was rejected: the session is
\* stopped by its worker and still shows that capture
FatalRunBlockStopsReached ==
    /\ bdriver.fatal
    /\ bdriver.captures >= 1
    /\ block.y_a[1] # 0
    /\ ~ block.running
    /\ bcaller.op = "start"
    /\ \E w \in WorkerIds : bworkers[w].pc = "done"


\* C19: once a rejected ps5000aRunBlock has closed the block session, and
\* until a fresh open(), no worker created by a later start() issues a
\* driver command (ps5000aSetDataBuffer for A or B, ps5000aRunBlock) on the
\* released handle.
NoRestartAfterFatal ==
    [][\A w \in WorkerIds :
          ~ /\ bdriver.fatal
            /\ ~ bdriver.unit_open
            /\ block.running
            /\ block.thread = w
            /\ bworkers[w].pc \in {"set_a", "set_b", "run_block"}
            /\ bworkers'[w].pc # bworkers[w].pc]_vars

\* C20: a streaming worker whose ps5000aRunStreaming was rejected leaves no
\* session behind that is in the running state on its account: the start()
\* that created it is undone, so that a later start() is not a no-op.
RunStreamingFailureAborts ==
    \A w \in WorkerIds :
       sworkers[w].pc = "dead"
          => (streamer.thread = w => ~ streamer.running)


\* C21: a block cycle that ends on a rejected ps5000aSetDataBuffer (A or B)
\* or a rejected ps5000aGetValues changes nothing in the session, neither
\* the displayed buffers nor the running flag; the worker is at the pacing
\* sleep that ends the iteration, alive, and with the flag still set its
\* next step begins a new cycle.
SwallowedCycle ==
    [][\A w \in WorkerIds :
          /\ (bworkers[w].pc = "set_a" /\ bworkers'[w].pc # "set_a")
                => bworkers'[w].pc \in {"set_b", "sleep"}
          /\ (bworkers[w].pc = "set_b" /\ bworkers'[w].pc # "set_b")
                => bworkers'[w].pc \in {"run_block", "sleep"}
          /\ (bworkers[w].pc = "get_values" /\ bworkers'[w].pc # "get_values")
                => bworkers'[w].pc \in {"pub_lock", "sleep", "top"}
          /\ (bworkers[w].pc \in {"set_a", "set_b", "get_values"}
                 /\ bworkers'[w].pc = "sleep")
                => block' = block
          /\ (bworkers[w].pc = "sleep" /\ bworkers'[w].pc # "sleep" /\ block.running)
                => bworkers'[w].pc = "set_a"]_vars

\* the only worker is at the pacing sleep after the driver took buffer A
\* and rejected buffer B; the session is still running
SwallowedCycleReached ==
    /\ block.running
    /\ bdriver.unit_open
    /\ bdriver.reg_a
    /\ ~ bdriver.reg_b
    /\ bdriver.captures = 0
    /\ bworkers[1].pc = "sleep"
    /\ \A w \in WorkerIds \ {1} : bworkers[w].pc = "unborn"


\* C22: when ps5000aGetStreamingLatestValues answers a status other than
\* PICO_OK the streaming worker goes on: that step leaves the session (its
\* running flag, ring, cursor and time axis) and what was delivered as they
\* were, the worker is back at the head of its loop, and with the flag set
\* its next step is the next poll.
RejectedPollGoesOn ==
    [][\A w \in WorkerIds :
          /\ (sworkers[w].pc = "poll" /\ sworkers'[w].pc # "poll")
                => sworkers'[w].pc \in {"loop", "cb_lock"}
          /\ (sworkers[w].pc = "poll" /\ ~ sworkers'[w].st2_ok)
                => /\ sworkers'[w].pc = "loop"
                   /\ streamer' = streamer
                   /\ delivered' = delivered
          /\ (sworkers[w].pc = "loop" /\ sworkers'[w].pc # "loop" /\ streamer.running)
                => sworkers'[w].pc = "poll"]_vars

\* a poll was rejected after samples had been copied in: the worker is at
\* the head of its loop and the session is running
RejectedPollGoesOnReached ==
    \E w \in WorkerIds :
       /\ sworkers[w].pc = "loop"
       /\ ~ sworkers[w].st2_ok
       /\ streamer.running
       /\ streamer.thread = w
       /\ Len(delivered.a) > 0


\* the driver calls open() can see rejected in the session's present
\* configuration: ps5000aSetSimpleTrigger is made by the streaming open()
\* only with the trigger enabled
OpenCalls(self) ==
    ((OpenUnitCall..SetDataBufferBCall) \cup {ChangePowerSourceCall})
       \ (IF self.cfg.simple_trigger_enabled THEN {} ELSE {SetTriggerCall})

BlockOpenCalls == (OpenUnitCall..BlockSetTriggerCall) \cup {ChangePowerSourceCall}

\* C23: in every stopped state with the unit closed, open() raises whichever
\* of its driver calls is the first to be rejected, in the streaming and in
\* the block session.
OpenFailsOnRejection ==
    /\ (program = "streaming" /\ scaller.pc = "idle" /\ ~ sdriver.unit_open)
          => \A fail \in OpenCalls(streamer) : Open(streamer, sdriver, fail).raised
    /\ (program = "block" /\ bcaller.pc = "idle" /\ ~ bdriver.unit_open)
          => \A fail \in BlockOpenCalls : BlockOpen(block, bdriver, fail).raised


\* the stored range of a channel
RangeOf(cfg, channel) ==
    IF channel = PS5000A_CHANNEL_A THEN cfg.range_a ELSE cfg.range_b

OtherChannel(channel) ==
    IF channel = PS5000A_CHANNEL_A THEN PS5000A_CHANNEL_B ELSE PS5000A_CHANNEL_A

\* what C24 asks of the outcome res of set_range(channel, r) called on the
\* session self with the device drv, the driver accepting ps5000aSetChannel
\* or not
SetRangeOutcome(self, drv, res, channel, r, accepted) ==
    IF accepted
    THEN /\ ~ res.raised
         /\ RangeOf(res.self.cfg, channel) = r
         /\ RangeOf(res.self.cfg, OtherChannel(channel))
               = RangeOf(self.cfg, OtherChannel(channel))
    ELSE /\ res.raised
         /\ res.self.cfg = self.cfg
         /\ res.drv.trigger = drv.trigger

\* C24: in every state in which set_range can be called, in both sessions:
\* when the driver rejects ps5000aSetChannel the call raises and leaves the
\* stored configuration (both ranges, the trigger settings) and the device's
\* trigger as they were; when it accepts, the call returns normally, the
\* stored range of that channel is r and the other channel's is unchanged.
SetRangeChangesOneRange ==
    /\ (program = "streaming" /\ scaller.pc = "idle")
          => \A channel \in Channels, r \in Ranges, ok \in BOOLEAN, ok2 \in BOOLEAN :
                SetRangeOutcome(streamer, sdriver,
                                SetRange(streamer, sdriver, channel, r, ok, ok2),
                                channel, r, Accepted(sdriver, ok))
    /\ (program = "block" /\ bcaller.pc = "idle")
          => \A channel \in Channels, r \in Ranges, ok \in BOOLEAN :
                SetRangeOutcome(block, bdriver,
                                BlockSetRange(block, bdriver, channel, r, ok),
                                channel, r, Accepted(bdriver, ok))

\* set_range(A, 1 V) has returned on the open streaming unit whose trigger is
\* armed on channel A: channel A is at 1 V, channel B as constructed
SetRangeChangesOneRangeReached ==
    /\ scaller.op = "set_range"
    /\ sdriver.unit_open
    /\ streamer.cfg.simple_trigger_enabled
    /\ sdriver.trigger.enable
    /\ streamer.cfg.range_a = PS5000A_1V
    /\ streamer.cfg.range_b = PS5000A_2V


\* int(round(fraction * max_adc)), the fraction in thousandths of full scale
FractionCounts(pct, max_adc) == Round(pct * EffectiveMaxAdc(max_adc), 1000)

\* what C25 asks of the outcome res of an accepted set_range on the trigger
\* source of session self, the driver accepting the set-trigger command: the
\* device's trigger is enabled at the counts of the stored fraction, and the
\* stored fraction is the one before the call
TriggerReapplied(self, res) ==
    /\ res.drv.trigger =
          [enable |-> TRUE,
           counts |-> FractionCounts(self.cfg.trigger_threshold_pct, self.max_adc)]
    /\ res.self.cfg.trigger_threshold_pct = self.cfg.trigger_threshold_pct
    /\ res.self.cfg.simple_trigger_enabled

\* C25: in every state in which set_range can be called with the trigger
\* enabled, in both sessions, an accepted set_range on the trigger-source
\* channel has sent the device a set-trigger command for the stored
\* threshold fraction by the time it returns, and leaves the fraction as it
\* was.
SetRangeReappliesTrigger ==
    /\ (program = "streaming" /\ scaller.pc = "idle"
           /\ sdriver.unit_open /\ streamer.cfg.simple_trigger_enabled)
          => \A r \in Ranges :
                TriggerReapplied(streamer,
                    SetRange(streamer, sdriver, streamer.cfg.trigger_source,
                             r, TRUE, TRUE))
    /\ (program = "block" /\ bcaller.pc = "idle"
           /\ bdriver.unit_open /\ block.cfg.simple_trigger_enabled)
          => \A r \in Ranges :
                TriggerReapplied(block,
                    BlockSetRange(block, bdriver, block.cfg.trigger_source,
                                  r, TRUE))


\* the three arrays a consumer copies under the lock have one length
SameLength(self) ==
    /\ self.t.len = Len(self.y_a)
    /\ self.t.len = Len(self.y_b)

\* C26: whenever the lock of a session is free, so that a consumer can take
\* it and copy voltage A, voltage B and the time axis, the three arrays have
\* one length and, in the streaming session, each channel's ring holds the
\* tail of the same deliveries, every delivery whole or not at all; a worker
\* changes the arrays only in a step it begins holding the lock and ends
\* releasing it, and a block publish leaves both channels holding the same
\* count of samples of the scratch buffers.
SnapshotWhole ==
    /\ [](streamer.lock = NoThread =>
             /\ SameLength(streamer)
             /\ Len(delivered.a) = Len(delivered.b)
             /\ RingOrder(streamer.y_a, streamer.write_idx)
                   = LastN(Zeros(streamer.ring_len) \o delivered.a, streamer.ring_len)
             /\ RingOrder(streamer.y_b, streamer.write_idx)
                   = LastN(Zeros(streamer.ring_len) \o delivered.b, streamer.ring_len))
    /\ [](block.lock = NoThread => SameLength(block))
    /\ [][\A w \in WorkerIds :
             /\ (sworkers'[w] # sworkers[w]
                    /\ <<streamer'.y_a, streamer'.y_b, streamer'.t, streamer'.write_idx>>
                          # <<streamer.y_a, streamer.y_b, streamer.t, streamer.write_idx>>)
                   => /\ streamer.lock = w
                      /\ streamer'.lock = NoThread
             /\ (bworkers'[w] # bworkers[w]
                    /\ <<block'.y_a, block'.y_b, block'.t>>
                          # <<block.y_a, block.y_b, block.t>>)
                   => /\ block.lock = w
                      /\ block'.lock = NoThread
                      /\ block'.y_a = Volts(Take(block.buf_a, block'.t.len),
                                            bworkers[w].range_a, block.max_adc)
                      /\ block'.y_b = Volts(Take(block.buf_b, block'.t.len),
                                            bworkers[w].range_b, block.max_adc)]_vars

\* samples were copied into the ring, the lock is free, and a worker is
\* inside the callback with the next chunk, about to take the lock
SnapshotWholeReached ==
    /\ streamer.lock = NoThread
    /\ Len(delivered.a) > 0
    /\ streamer.y_a # Zeros(streamer.ring_len)
    /\ \E w \in WorkerIds : sworkers[w].pc = "cb_lock" /\ Len(sworkers[w].a) > 0


\* the ring is well formed: the cursor inside it, the declared length that
\* of both arrays
RingWellFormed(self) ==
    /\ 0 <= self.write_idx
    /\ self.write_idx < self.ring_len
    /\ self.ring_len = Len(self.y_a)
    /\ self.ring_len = Len(self.y_b)

\* C27: with reconfigure_window_ms called while the streaming workers run,
\* whenever the lock is free the ring is well formed and the time axis has
\* its length; whenever a callback holds the lock, about to copy in, the
\* ring is well formed, so that every slice it assigns lies inside the ring
\* and has the length of what is assigned to it (nothing is written outside,
\* nothing raises); and no step of reconfigure_window_ms changes the
\* sampling interval.
WindowSafeWhileStreaming ==
    /\ [](streamer.lock = NoThread =>
             RingWellFormed(streamer) /\ streamer.t.len = streamer.ring_len)
    /\ [](\A w \in WorkerIds :
             sworkers[w].pc = "cb_locked" => RingWellFormed(streamer))
    /\ [][(scaller'.op = "reconfigure_window_ms" /\ scaller' # scaller)
             => /\ streamer'.dt_s = streamer.dt_s
                /\ streamer'.cfg.sample_interval_ns = streamer.cfg.sample_interval_ns]_vars

\* reconfigure_window_ms shrank the ring to the floor while the session was
\* running, and a callback has copied samples into the new ring since
WindowSafeWhileStreamingReached ==
    /\ scaller.op = "reconfigure_window_ms"
    /\ scaller.pc = "idle"
    /\ streamer.running
    /\ streamer.lock = NoThread
    /\ streamer.ring_len = MinDepth
    /\ Len(delivered.a) > 0
    /\ streamer.write_idx > 0


\* v is x rounded to a half: the same sign and at most half a unit in the
\* last of the half's 11 significant bits away
WithinRounding(v, x) ==
    /\ 2048 * Abs(v - x) <= Abs(x)
    /\ (x > 0 => v > 0) /\ (x < 0 => v < 0)

\* the voltages of an array read at 2-byte precision
Float16Values(elements) ==
    [i \in 1..Len(elements) |-> Float16Value(ElementBits(elements[i]))]

\* C28: when read_acq_bin has read at 2-byte precision the file the recorder
\* wrote from a snapshot of N channel A samples and N channel B samples, it
\* raised nothing and returned two arrays of N elements, the first the
\* channel A samples and the second the channel B samples, each rounded to
\* a half, in the order they were written.
RoundTrip ==
    (capture.recorded /\ capture.res.called /\ capture.res.dtype = "float16") =>
        /\ capture.res.raised = "none"
        /\ Len(capture.res.a) = Len(capture.ya)
        /\ Len(capture.res.b) = Len(capture.yb)
        /\ \A i \in 1..Len(capture.ya) :
              WithinRounding(Float16Values(capture.res.a)[i], capture.ya[i])
        /\ \A i \in 1..Len(capture.yb) :
              WithinRounding(Float16Values(capture.res.b)[i], capture.yb[i])

\* a snapshot of two samples a channel, with a sample that a half cannot
\* hold exactly on each channel, has been recorded and read back
RoundTripReached ==
    /\ capture.recorded /\ capture.res.called /\ capture.res.dtype = "float16"
    /\ capture.ya = <<3, 4095>>
    /\ capture.yb = <<0 - 2049, 0>>
    /\ Float16Values(capture.res.a) = <<3, 4096>>
    /\ Float16Values(capture.res.b) = <<0 - 2048, 0>>

NoneAcceptable(drv, desired_dt) ==
    \A tb \in 0..(Len(TimebaseTable) - 1) : ~ ProbeAccepts(drv, tb, desired_dt)

\* C30: the probe of _find_timebase ends having tried at most 50,000
\* indices, 0 to 49,999, and a call of reconfigure_timebase or
\* reconfigure_window_ms whose probe found no acceptable index stores as
\* the timebase the last index the probe tried, 49,999.
FallbackReturnsLastProbed ==
    /\ [](Probe(bdriver, 0, block.cfg.sample_interval_ns) \in 0..ProbeLimit)
    /\ [][(/\ bcaller.pc = "find_timebase"
           /\ bcaller'.pc # "find_timebase"
           /\ NoneAcceptable(bdriver, block.cfg.sample_interval_ns))
             => block'.timebase = ProbeLimit - 1]_vars


\* worker w moves to the position pc in this step
Arrives(w, pc) == bworkers'[w].pc = pc /\ bworkers[w].pc # pc

\* C31: every block worker issues its commands in the order of the cycle:
\* ps5000aSetDataBuffer(A) at the start of an iteration, (B) after an
\* accepted (A), ps5000aRunBlock after an accepted (B), the readiness polls
\* after an accepted ps5000aRunBlock, ps5000aGetValues only after a poll
\* that reported ready, the locked publish only after an accepted
\* ps5000aGetValues that delivered a positive count; and only a worker in
\* its publish changes the displayed arrays.
CycleOrder ==
    [][\A w \in WorkerIds :
          /\ Arrives(w, "set_a") => bworkers[w].pc \in {"top", "sleep"}
          /\ Arrives(w, "set_b") => bworkers[w].pc = "set_a" /\ bdriver'.reg_a
          /\ Arrives(w, "run_block") => bworkers[w].pc = "set_b" /\ bdriver'.reg_b
          /\ Arrives(w, "wait") => bworkers[w].pc = "run_block"
          /\ Arrives(w, "get_values")
                => /\ bworkers[w].pc \in {"wait", "wait_exit"}
                   /\ bworkers[w].ready # 0
          /\ Arrives(w, "pub_lock")
                => /\ bworkers[w].pc = "get_values"
                   /\ bworkers'[w].cnt > 0
                   /\ bdriver'.captures = bdriver.captures + 1
          /\ Arrives(w, "pub_locked") => bworkers[w].pc = "pub_lock"
          /\ (bworkers'[w] # bworkers[w]
                 /\ <<block'.y_a, block'.y_b, block'.t>> # <<block.y_a, block.y_b, block.t>>)
                => bworkers[w].pc = "pub_locked"]_vars


\* C32: a block worker that was polling the readiness flag when stop()
\* cleared the running flag leaves its loop from there: its next steps are
\* the end of the readiness loop and the break of line 270, which issue no
\* ps5000aGetValues, take no lock and leave the session's buffers and the
\* device as they were.
StopInterruptsWait ==
    [][\A w \in WorkerIds :
          (/\ bworkers[w].interrupted
           /\ bworkers[w].pc \in {"wait", "wait_exit"}
           /\ bworkers'[w] # bworkers[w])
             => /\ bworkers'[w].pc = IF bworkers[w].pc = "wait" THEN "wait_exit" ELSE "done"
                /\ block' = block
                /\ bdriver' = bdriver]_vars


\* C40: when ps5000aGetValues is accepted and reports no sample, the step
\* leaves the session as it was and puts the worker at the test of the
\* running flag with no pacing sleep before it; the iterations that end in
\* a swallowed exception or in a publish all end in the pacing sleep, and a
\* worker is at the test without a sleep only as a new thread or after an
\* empty capture.
EmptyCaptureSkipsSleep ==
    [][\A w \in WorkerIds :
          /\ (/\ bworkers[w].pc = "get_values"
              /\ bworkers'[w] # bworkers[w]
              /\ bdriver'.captures = bdriver.captures + 1
              /\ bworkers'[w].pc # "pub_lock")
                => /\ bworkers'[w].pc = "top"
                   /\ block' = block
          /\ Arrives(w, "top")
                => \/ bworkers[w].pc = "unborn"
                   \/ /\ bworkers[w].pc = "get_values"
                      /\ bdriver'.captures = bdriver.captures + 1
          /\ Arrives(w, "sleep")
                => bworkers[w].pc \in {"set_a", "set_b", "get_values", "pub_locked"}
          /\ (bworkers[w].pc \in {"set_a", "set_b", "pub_locked"}
                 /\ bworkers'[w].pc \notin {bworkers[w].pc, "set_b", "run_block"})
                => bworkers'[w].pc = "sleep"
          /\ (bworkers[w].pc = "top" /\ block.running /\ bworkers'[w] # bworkers[w])
                => bworkers'[w].pc = "set_a"]_vars

\* the only worker is at the test of the flag after the one capture of the
\* run, which delivered nothing; the session is running
EmptyCaptureSkipsSleepReached ==
    /\ block.running
    /\ bdriver.captures = 1
    /\ bworkers[1].pc = "top"
    /\ \A w \in WorkerIds \ {1} : bworkers[w].pc = "unborn"

----------------------------------------------------------------------------
(* The conversion of counts to volts at full scale                         *)

\* range codes of the least and the greatest range, of 1 V, and a code the
\* table RANGE_TO_VOLTS does not hold
ScaleRanges == {0, PS5000A_1V, 10, 11}
\* the ranges channel B starts with
ScaleRangesB == {0, 11}
\* the signal levels on channel A and channel B: negative full scale, zero
\* and positive full scale on each, every pair
Levels == {0 - 1, 0, 1}
LevelPairs == {<<0 - 1, 0>>, <<0, 1>>, <<1, 0 - 1>>}
\* sample counts of one callback
ScaleCounts == {2}

\* a constant signal at level times the max count the session goes by
FullScale(level, max_adc, cnt) ==
    [i \in 1..cnt |-> level * EffectiveMaxAdc(max_adc)]

\* level times the full-scale voltage of a range, in microvolts
LevelVolts(level, rng, cnt) ==
    [i \in 1..cnt |-> level * RANGE_TO_VOLTS(rng) * 1000]

\* a streaming session constructed, or a block session opened, with each
\* pair of ranges; the block device reports a max count or 0
InitScale ==
    /\ program \in {"streaming", "block"}
    /\ IF program = "streaming"
       THEN /\ Constructed({[c EXCEPT !.range_a = ra, !.range_b = rb] :
                               c \in {x \in StreamConfigs :
                                         /\ ~ x.simple_trigger_enabled
                                         /\ x.trigger_source = PS5000A_CHANNEL_A
                                         /\ x.sample_interval_ns = 1000
                                         /\ x.plot_window_ms = 12},
                               ra \in ScaleRanges, rb \in ScaleRangesB},
                           {32512}, {2000})
            /\ InitBlock
       ELSE /\ InitStream
            /\ \E cfg \in {c \in BlockConfigs : /\ c.sample_interval_ns = 1000
                                                /\ c.plot_max_points = DeviceMaxSamples},
                  ra \in ScaleRanges, rb \in ScaleRangesB, mv \in {0, 32512} :
                  LET r == BlockOpen(NewBlock([cfg EXCEPT !.range_a = ra, !.range_b = rb]),
                                     NewBlockDriver(mv, FALSE), 0)
                  IN  /\ block = r.self
                      /\ bdriver = r.drv
            /\ bworkers = [w \in WorkerIds |-> NewBlockWorker]
            /\ bcaller = CallerStart
            /\ capture = NewCapture

\* the callback and the capture loop on signals at full scale, with the
\* calls that change what they go by: open and set_range
NextScale ==
    \/ SOpen(0)
    \/ \E channel \in Channels, r \in Ranges : SSetRange(channel, r, TRUE, TRUE)
    \/ \E n \in ScaleCounts, l \in LevelPairs :
          /\ program = "streaming"
          /\ OnStreamingReadyOf(n, 0, 0, FullScale(l[1], streamer.max_adc, n),
                                FullScale(l[2], streamer.max_adc, n))
    \/ BStart
    \/ \E channel \in Channels, r \in Ranges : BSetRange(channel, r, TRUE)
    \/ \E w \in WorkerIds : BWTop(w)
    \/ \E w \in WorkerIds : BWSetBufferA(w, TRUE)
    \/ \E w \in WorkerIds : BWSetBufferB(w, TRUE)
    \/ \E w \in WorkerIds : BWRunBlock(w, TRUE)
    \/ \E w \in WorkerIds : BWWait(w, 1)
    \/ \E w \in WorkerIds, l \in LevelPairs :
          BWGetValuesOf(w, block.n_samples,
                        FullScale(l[1], block.max_adc, block.n_samples),
                        FullScale(l[2], block.max_adc, block.n_samples))
    \/ \E w \in WorkerIds : BWAcquire(w)
    \/ \E w \in WorkerIds : BWPublish(w)

SpecScale == InitScale /\ [][NextScale]_vars

\* C33: the callback that copies a signal at level la on channel A and lb on
\* channel B stores la and lb times the full-scale voltage of the range
\* configured for that channel when the callback runs, whatever max count the
\* session goes by (32767 before the device reported one); the capture loop
\* reads both ranges when the capture is retrieved, and its publish stores,
\* for each count of -M, 0 or M in the scratch buffer, -V, 0 or V of the
\* range read for that channel
VoltageScaling ==
    [][/\ \A n \in ScaleCounts, la \in Levels, lb \in Levels :
             (/\ program = "streaming"
              /\ OnStreamingReadyOf(n, 0, 0, FullScale(la, streamer.max_adc, n),
                                    FullScale(lb, streamer.max_adc, n)))
                => LET a == LevelVolts(la, streamer.cfg.range_a, n)
                       b == LevelVolts(lb, streamer.cfg.range_b, n)
                   IN  /\ delivered' = [a |-> delivered.a \o a, b |-> delivered.b \o b]
                       /\ streamer' = CopyIn(streamer, a, b)
       /\ \A w \in WorkerIds :
             /\ (bworkers[w].pc = "get_values" /\ bworkers'[w].pc = "pub_lock")
                   => /\ bworkers'[w].range_a = block.cfg.range_a
                      /\ bworkers'[w].range_b = block.cfg.range_b
             /\ (bworkers[w].pc = "pub_locked" /\ bworkers'[w].pc = "sleep")
                   => LET m == EffectiveMaxAdc(block.max_adc)
                          cnt == bworkers[w].cnt
                      IN  /\ Len(block'.y_a) = cnt
                          /\ Len(block'.y_b) = cnt
                          /\ \A i \in 1..cnt :
                                /\ block.buf_a[i] \in {0 - m, 0, m}
                                /\ block.buf_b[i] \in {0 - m, 0, m}
                                /\ block'.y_a[i] = (block.buf_a[i] \div m)
                                      * RANGE_TO_VOLTS(bworkers[w].range_a) * 1000
                                /\ block'.y_b[i] = (block.buf_b[i] \div m)
                                      * RANGE_TO_VOLTS(bworkers[w].range_b) * 1000]_vars

\* a published capture at positive full scale on A and negative full scale
\* on B, the two channels on different ranges
VoltageScalingReached ==
    /\ program = "block"
    /\ block.cfg.range_a # block.cfg.range_b
    /\ Len(block.y_a) > 0
    /\ block.y_a[1] = RANGE_TO_VOLTS(block.cfg.range_a) * 1000
    /\ block.y_b[1] = 0 - RANGE_TO_VOLTS(block.cfg.range_b) * 1000

----------------------------------------------------------------------------
(* The threshold count of the set-trigger commands                         *)

\* the threshold fractions a streaming session is configured with, in
\* thousandths of full scale: 0.1 (the default) and 0.3
TriggerFractions == {100, 300}

\* a session of either kind constructed with its trigger on
InitTrigger ==
    /\ program \in {"streaming", "block"}
    /\ IF program = "streaming"
       THEN /\ Constructed({[c EXCEPT !.trigger_threshold_pct = pct] :
                               c \in {x \in StreamConfigs :
                                         /\ x.simple_trigger_enabled
                                         /\ x.trigger_source = PS5000A_CHANNEL_A
                                         /\ x.sample_interval_ns = 1000
                                         /\ x.plot_window_ms = 12},
                               pct \in TriggerFractions},
                           {32512}, {2000})
            /\ InitBlock
       ELSE /\ InitStream
            /\ InitBlock

\* open, close, apply_trigger and set_range on a session with its trigger on
SpecTrigger == InitTrigger /\ [][NextConfig]_vars

\* C34: a step that leaves the driver with another enabled trigger leaves it
\* with the threshold count round(stored fraction * max count), which lies
\* within -max count .. max count
TriggerCountsDerived ==
    [][/\ (sdriver'.trigger # sdriver.trigger /\ sdriver'.trigger.enable)
             => /\ sdriver'.trigger.counts =
                      FractionCounts(streamer'.cfg.trigger_threshold_pct,
                                     streamer'.max_adc)
                /\ Abs(sdriver'.trigger.counts) <= EffectiveMaxAdc(streamer'.max_adc)
       /\ (bdriver'.trigger # bdriver.trigger /\ bdriver'.trigger.enable)
             => /\ bdriver'.trigger.counts =
                      FractionCounts(block'.cfg.trigger_threshold_pct, block'.max_adc)
                /\ Abs(bdriver'.trigger.counts) <= EffectiveMaxAdc(block'.max_adc)]_vars

\* C35: the callback called with start index i and count n (the trigger off)
\* copies min(n, driver_buffer_size - i) samples when that is positive and
\* none otherwise, so that what it reads, i .. i + cnt - 1, lies inside the
\* scratch buffer; with i >= driver_buffer_size it leaves the ring, the
\* cursor and the samples delivered so far as they were
CallbackBounds ==
    [][sdriver'.callbacks # sdriver.callbacks
          => LET n == gate'.n
                 i == gate'.idx
                 cnt == Len(delivered'.a) - Len(delivered.a)
             IN  /\ cnt = IF n > 0 /\ i < DriverBufferSize
                          THEN Min(n, DriverBufferSize - i)
                          ELSE 0
                 /\ Len(delivered'.b) - Len(delivered.b) = cnt
                 /\ cnt > 0 => i + cnt <= DriverBufferSize
                 /\ cnt = 0 => /\ streamer'.y_a = streamer.y_a
                               /\ streamer'.y_b = streamer.y_b
                               /\ streamer'.write_idx = streamer.write_idx
                               /\ delivered' = delivered]_vars

\* a callback whose samples ran past the end of the scratch buffer was cut
\* there, and another one began at the end and copied nothing
CallbackBoundsReached ==
    /\ gate.idx = DriverBufferSize
    /\ gate.n > 0
    /\ sdriver.callbacks = 2
    /\ Len(delivered.a) = DriverBufferSize - DriverBufferSize \div 2

----------------------------------------------------------------------------
(* The callback called with no samples                                     *)

\* the sample counts of the gate specification: a negative count, none, one
GateCounts == {0 - 1, 0, 1}

\* the callback alone on a session with its trigger on or off, open, and
\* apply_trigger accepted or rejected, in both sessions, and the streaming
\* session's set_range
NextGate ==
    \/ SOpen(0)
    \/ \E channel \in Channels, r \in Ranges, ok \in BOOLEAN, ok2 \in BOOLEAN :
          SSetRange(channel, r, ok, ok2)
    \/ \E n \in GateCounts, tr \in TriggerFlags :
          /\ program = "streaming"
          /\ OnStreamingReady(n, 0, tr)
    \/ \E enabled \in BOOLEAN, v \in ThresholdsMv, ok \in BOOLEAN :
          SApplyTrigger(enabled, v, ok)
    \/ BOpen(0)
    \/ \E enabled \in BOOLEAN, pct \in ThresholdsPct, ok \in BOOLEAN :
          BApplyTrigger(enabled, pct, ok)

\* a session of either kind constructed, the streaming one with its trigger
\* on or off
InitGate ==
    /\ program \in {"streaming", "block"}
    /\ InitStream
    /\ InitBlock

SpecGate == InitGate /\ [][NextGate]_vars

\* C36: a callback called with n <= 0 leaves the session object (ring,
\* cursor, _seen_trigger) and the samples delivered as they were, whatever
\* its triggered flag
NoSamplesNoChange ==
    [][(sdriver'.callbacks # sdriver.callbacks /\ gate'.n <= 0)
          => /\ streamer' = streamer
             /\ delivered' = delivered]_vars

\* a trigger event came with no samples while the gate was shut, and the
\* gate is still shut
NoSamplesNoChangeReached ==
    /\ sdriver.callbacks > 0
    /\ gate.n <= 0
    /\ gate.triggered # 0
    /\ streamer.cfg.simple_trigger_enabled
    /\ ~ streamer.seen_trigger

\* C37: an apply_trigger whose set-trigger command the driver rejects (or
\* that finds the unit closed) raises, leaves the driver as it was and the
\* session with the requested enabled flag and threshold fraction stored and
\* nothing else changed, _seen_trigger included; an accepted one in the
\* streaming session resets _seen_trigger
RejectedTriggerStores ==
    [][/\ \A enabled \in BOOLEAN, v \in ThresholdsMv, ok \in BOOLEAN :
             SApplyTrigger(enabled, v, ok)
                => IF Accepted(sdriver, ok)
                   THEN /\ ~ ApplyTrigger(streamer, sdriver, enabled, v, ok).raised
                        /\ ~ streamer'.seen_trigger
                   ELSE /\ ApplyTrigger(streamer, sdriver, enabled, v, ok).raised
                        /\ sdriver' = sdriver
                        /\ streamer' =
                              [streamer EXCEPT
                                  !.cfg.simple_trigger_enabled = enabled,
                                  !.cfg.trigger_threshold_pct =
                                      (v * 1000) \div
                                          RANGE_TO_VOLTS(SourceRange(streamer.cfg))]
                        /\ streamer'.seen_trigger = streamer.seen_trigger
       /\ \A enabled \in BOOLEAN, pct \in ThresholdsPct, ok \in BOOLEAN :
             (BApplyTrigger(enabled, pct, ok) /\ ~ Accepted(bdriver, ok))
                => /\ BlockApplyTrigger(block, bdriver, enabled, pct, ok).raised
                   /\ bdriver' = bdriver
                   /\ block' = [block EXCEPT
                                   !.cfg.simple_trigger_enabled = enabled,
                                   !.cfg.trigger_threshold_pct = pct]]_vars

\* the gate was open and the device's trigger on when apply_trigger(False)
\* was rejected: the flag is stored off, the gate is still open, the device
\* still triggers
RejectedTriggerStoresReached ==
    /\ program = "streaming"
    /\ scaller.op = "apply_trigger"
    /\ streamer.seen_trigger
    /\ ~ streamer.cfg.simple_trigger_enabled
    /\ sdriver.trigger.enable

\* C38: set_range of the streaming session on the trigger-source channel,
\* the unit open and the trigger enabled, whose ps5000aSetChannel is accepted
\* and whose ps5000aSetSimpleTrigger is rejected, does not raise: the range
\* of the channel is the new one, the rest of the session object is as it
\* was (the fraction and _seen_trigger included) and so is the driver's
\* trigger
QuietReapplyFailure ==
    [][\A channel \in Channels, r \in Ranges :
          (/\ SSetRange(channel, r, TRUE, FALSE)
           /\ sdriver.unit_open
           /\ streamer.cfg.simple_trigger_enabled
           /\ channel = streamer.cfg.trigger_source)
             => /\ ~ SetRange(streamer, sdriver, channel, r, TRUE, FALSE).raised
                /\ streamer' = IF channel = PS5000A_CHANNEL_A
                               THEN [streamer EXCEPT !.cfg.range_a = r]
                               ELSE [streamer EXCEPT !.cfg.range_b = r]
                /\ sdriver' = sdriver]_vars

\* the gate was open when set_range moved channel A, the trigger source, to
\* 1 V and its re-application was rejected: the gate is still open with no
\* trigger event seen since
QuietReapplyFailureReached ==
    /\ program = "streaming"
    /\ scaller.op = "set_range"
    /\ streamer.cfg.simple_trigger_enabled
    /\ streamer.cfg.range_a = PS5000A_1V
    /\ streamer.seen_trigger
    /\ ~ gate.event_call
    /\ sdriver.trigger.enable

----------------------------------------------------------------------------
(* The buffer lock of the streaming session and its three users            *)

\* update_plot of the streaming front end, on the foreground thread between
\* two calls: "if self.streamer and self.streamer._running" (lines 908-909)
SUpdatePlot ==
    /\ program = "streaming"
    /\ scaller.pc = "idle"
    /\ streamer.running
    /\ scaller' = [scaller EXCEPT !.pc = "snap_lock"]
    /\ UNCHANGED <<streamer, sdriver, sworkers, delivered, gate>>
    /\ BlockIdle

\* "with self.streamer._lock" (line 910): the consumer takes the lock
SSnapshotAcquire ==
    /\ scaller.pc = "snap_lock"
    /\ streamer.lock = NoThread
    /\ streamer' = [streamer EXCEPT !.lock = Caller]
    /\ scaller' = [scaller EXCEPT !.pc = "snap_locked"]
    /\ UNCHANGED <<sdriver, sworkers, delivered, gate>>
    /\ BlockIdle

\* a consumer that copies the three arrays and keeps the lock
SSnapshotKeepsLock ==
    /\ scaller.pc = "snap_locked"
    /\ scaller' = [scaller EXCEPT !.pc = "idle"]
    /\ UNCHANGED <<streamer, sdriver, sworkers, delivered, gate>>
    /\ BlockIdle

\* the three copies (lines 911-913) and the release
SSnapshot ==
    /\ scaller.pc = "snap_locked"
    /\ streamer' = [streamer EXCEPT !.lock = NoThread]
    /\ scaller' = [scaller EXCEPT !.pc = "idle"]
    /\ UNCHANGED <<sdriver, sworkers, delivered, gate>>
    /\ BlockIdle

\* an opened streaming session, its trigger off
InitLock ==
    /\ program = "streaming"
    /\ \E cfg \in {c \in StreamConfigs : /\ ~ c.simple_trigger_enabled
                                        /\ c.trigger_source = PS5000A_CHANNEL_A
                                        /\ c.sample_interval_ns = 1000
                                        /\ c.plot_window_ms = 12} :
          LET r == Open(NewStreamer(cfg), NewDriver(32512, 2000), 0)
          IN  /\ streamer = r.self
              /\ sdriver = r.drv
    /\ sworkers = [w \in WorkerIds |-> NewWorker]
    /\ scaller = CallerStart
    /\ delivered = [a |-> <<>>, b |-> <<>>]
    /\ gate = NoCallback
    /\ InitBlock

\* one step of streaming worker w that is no wait for the lock
LockWorkerStep(w) ==
    \/ WRunStreaming(w, TRUE)
    \/ WLoop(w)
    \/ WPoll(w, 1, 0, 0)
    \/ WCopy(w)

\* one step of the foreground thread inside a call that is no wait for the
\* lock
LockCallerStep ==
    \/ SJoinReturn
    \/ SEnsureCommit
    \/ SCommit
    \/ SSnapshot

\* the users of the lock: the workers' callbacks, the two reconfigurations
\* and the consumer, with start() and stop()
NextLock ==
    \/ SStart
    \/ SStop
    \/ \E w \in WindowsUs : SReconfigureWindow(w)
    \/ \E x \in SampleIntervals : SReconfigureTimebase(x, TRUE)
    \/ SUpdatePlot
    \/ SCallerAcquire
    \/ SSnapshotAcquire
    \/ LockCallerStep
    \/ \E w \in WorkerIds : LockWorkerStep(w)
    \/ \E w \in WorkerIds : WAcquire(w)

\* every thread that can take a step takes one in the end, and a thread
\* waiting for a lock that is released again and again gets it in the end
LockFairness ==
    /\ \A w \in WorkerIds : WF_vars(LockWorkerStep(w))
    /\ \A w \in WorkerIds : SF_vars(WAcquire(w))
    /\ WF_vars(LockCallerStep)
    /\ SF_vars(SCallerAcquire)
    /\ SF_vars(SSnapshotAcquire)

SpecLock == InitLock /\ [][NextLock]_vars /\ LockFairness

\* the threads waiting at "with self._lock" and the threads inside it
CallerWaits == scaller.pc \in {"ensure_lock", "commit_lock", "snap_lock"}
CallerHolds == scaller.pc \in {"ensure_locked", "commit_locked", "snap_locked"}

\* C39: no thread reaches "with self._lock" holding the lock, the thread
\* inside a locked section is the holder, every holder releases the lock in
\* the end, and the consumer, a reconfiguring caller and a worker in its
\* callback that wait for the lock each get it in the end
LockIsLive ==
    /\ [](/\ CallerHolds <=> streamer.lock = Caller
          /\ CallerWaits => streamer.lock # Caller
          /\ \A w \in WorkerIds :
                /\ sworkers[w].pc = "cb_locked" <=> streamer.lock = w
                /\ sworkers[w].pc = "cb_lock" => streamer.lock # w)
    /\ (streamer.lock # NoThread) ~> (streamer.lock = NoThread)
    /\ (scaller.pc = "snap_lock") ~> (scaller.pc = "snap_locked")
    /\ (scaller.pc = "ensure_lock") ~> (scaller.pc = "ensure_locked")
    /\ (scaller.pc = "commit_lock") ~> (scaller.pc = "commit_locked")
    /\ \A w \in WorkerIds : (sworkers[w].pc = "cb_lock") ~> (streamer.lock = w)

\* the consumer waits for the lock a worker holds in its callback
LockIsLiveReached ==
    /\ scaller.pc = "snap_lock"
    /\ \E w \in WorkerIds : streamer.lock = w

====
